---- MODULE Spec2Model ----
(***************************************************************************)
(* UPI tracker: SMS ingestion (parser, categorizer, smsReader), the local  *)
(* store adapter (db.ts) and the Firestore reconciler (syncService.ts).    *)
(*                                                                         *)
(* A text is a sequence of one-character strings, so that substring tests  *)
(* and the regular expressions of the parser are computed character by     *)
(* character.  The rupee sign is the one-character token "RUPEE".          *)
(* Amounts are integers in hundredths (450.00 is 45000).  Timestamps       *)
(* (Date.now(), ISO strings) are natural numbers read from the clock now.  *)
(***************************************************************************)
EXTENDS Integers, Sequences, FiniteSets, TLC

(***************************************************************************)
(* Bounds of the model.                                                    *)
(***************************************************************************)
MaxTime == 2
MaxRows == 3
MaxRemote == 2
MaxCalls == 2
MaxInitId == 2
MaxChanges == 2

(***************************************************************************)
(* Characters and strings.                                                 *)
(***************************************************************************)
UpperToLower ==
  ("A" :> "a") @@ ("B" :> "b") @@ ("C" :> "c") @@ ("D" :> "d") @@ ("E" :> "e") @@
  ("F" :> "f") @@ ("G" :> "g") @@ ("H" :> "h") @@ ("I" :> "i") @@ ("J" :> "j") @@
  ("K" :> "k") @@ ("L" :> "l") @@ ("M" :> "m") @@ ("N" :> "n") @@ ("O" :> "o") @@
  ("P" :> "p") @@ ("Q" :> "q") @@ ("R" :> "r") @@ ("S" :> "s") @@ ("T" :> "t") @@
  ("U" :> "u") @@ ("V" :> "v") @@ ("W" :> "w") @@ ("X" :> "x") @@ ("Y" :> "y") @@
  ("Z" :> "z")

\* String.prototype.toLowerCase
toLowerCase(s) ==
  [i \in 1..Len(s) |-> IF s[i] \in DOMAIN UpperToLower THEN UpperToLower[s[i]] ELSE s[i]]

DigitValue ==
  ("0" :> 0) @@ ("1" :> 1) @@ ("2" :> 2) @@ ("3" :> 3) @@ ("4" :> 4) @@
  ("5" :> 5) @@ ("6" :> 6) @@ ("7" :> 7) @@ ("8" :> 8) @@ ("9" :> 9)

\* the classes \d, \s and \w, [A-Za-z0-9\s&-] and [A-Za-z0-9._-]
Digits == DOMAIN DigitValue
Spaces == {" ", "\t", "\n"}
Letters == DOMAIN UpperToLower \cup {UpperToLower[c] : c \in DOMAIN UpperToLower}
WordChars == Letters \cup Digits \cup {"_"}
NameChars == Letters \cup Digits \cup Spaces \cup {"&", "-"}
HandleChars == Letters \cup Digits \cup {".", "_", "-"}

\* k occurs in s starting at index i
StartsAt(s, k, i) ==
  /\ i >= 1
  /\ i + Len(k) - 1 <= Len(s)
  /\ \A j \in 1..Len(k) : s[i + j - 1] = k[j]

\* String.prototype.includes
Includes(s, k) == \E i \in 1..(Len(s) - Len(k) + 1) : StartsAt(s, k, i)

\* keywords.some(keyword => s.includes(keyword))
IncludesAny(s, keywords) == \E n \in 1..Len(keywords) : Includes(s, keywords[n])

\* the least element of a non-empty set of integers
Least(S) == CHOOSE x \in S : \A y \in S : x <= y

\* String.prototype.trim
trim(s) ==
  LET kept == {i \in 1..Len(s) : s[i] \notin Spaces}
  IN  IF kept = {} THEN <<>>
      ELSE SubSeq(s, Least(kept), CHOOSE x \in kept : \A y \in kept : y <= x)

(***************************************************************************)
(* parser: the gates of parseSMS and the pre-filter of processSingleSMS.   *)
(***************************************************************************)
upiKeywords ==
  << <<"u", "p", "i">>, <<"d", "e", "b", "i", "t", "e", "d">>, <<"p", "a", "i", "d">>, <<"t", "r", "a", "n", "s", "f", "e", "r", "r", "e", "d">>, <<"s", "e", "n", "t", " ", "t", "o">>, <<"p", "a", "y", "m", "e", "n", "t">>,
     <<"t", "r", "a", "n", "s", "a", "c", "t", "i", "o", "n">>, <<"g", "p", "a", "y">>, <<"p", "h", "o", "n", "e", "p", "e">>, <<"p", "a", "y", "t", "m">>, <<"b", "h", "i", "m">>, <<"g", "o", "o", "g", "l", "e", " ", "p", "a", "y">> >>

isUPITransaction(message) == IncludesAny(toLowerCase(message), upiKeywords)

failureKeywords ==
  << <<"f", "a", "i", "l", "e", "d">>, <<"d", "e", "c", "l", "i", "n", "e", "d">>, <<"r", "e", "j", "e", "c", "t", "e", "d">>, <<"u", "n", "s", "u", "c", "c", "e", "s", "s", "f", "u", "l">>, <<"n", "o", "t", " ", "s", "u", "c", "c", "e", "s", "s", "f", "u", "l">>,
     <<"c", "o", "u", "l", "d", " ", "n", "o", "t">>, <<"u", "n", "a", "b", "l", "e", " ", "t", "o">>, <<"r", "e", "v", "e", "r", "s", "e", "d">> >>

isFailedTransaction(message) == IncludesAny(toLowerCase(message), failureKeywords)

otpKeywords ==
  << <<"o", "t", "p">>, <<"o", "n", "e", " ", "t", "i", "m", "e", " ", "p", "a", "s", "s", "w", "o", "r", "d">>, <<"v", "e", "r", "i", "f", "i", "c", "a", "t", "i", "o", "n", " ", "c", "o", "d", "e">>, <<"v", "e", "r", "i", "f", "y">>,
     <<"d", "o", " ", "n", "o", "t", " ", "s", "h", "a", "r", "e">> >>

isOTPMessage(message) == IncludesAny(toLowerCase(message), otpKeywords)

promoKeywords ==
  << <<"o", "f", "f", "e", "r">>, <<"d", "i", "s", "c", "o", "u", "n", "t">>, <<"c", "a", "s", "h", "b", "a", "c", "k">>, <<"c", "o", "n", "g", "r", "a", "t", "u", "l", "a", "t", "i", "o", "n", "s">>, <<"w", "i", "n", "n", "e", "r">>,
     <<"c", "l", "a", "i", "m">>, <<"s", "u", "b", "s", "c", "r", "i", "b", "e">>, <<"u", "n", "s", "u", "b", "s", "c", "r", "i", "b", "e">> >>

\* a promotional check that looks at the promotional keywords only
isPromotionalMessageByKeywordsOnly(message) ==
  IncludesAny(toLowerCase(message), promoKeywords)

isPromotionalMessage(message) ==
  /\ IncludesAny(toLowerCase(message), promoKeywords)
  /\ ~Includes(toLowerCase(message), <<"d", "e", "b", "i", "t", "e", "d">>)
  /\ ~Includes(toLowerCase(message), <<"p", "a", "i", "d">>)

(***************************************************************************)
(* Regular expressions.  An expression is a tree of nodes; a thread is a   *)
(* position at in the text with the bounds from..to of what the capture    *)
(* group has matched (0 while it has not taken part).  Run gives the       *)
(* threads that leave a node in the order a backtracking matcher tries     *)
(* them, so the head of the list is the match JavaScript reports.          *)
(***************************************************************************)
Lit(w) == [t |-> "lit", w |-> w]
Cls(chars) == [t |-> "cls", in |-> chars]
Cat(nodes) == [t |-> "seq", of |-> nodes]
Alt(nodes) == [t |-> "alt", of |-> nodes]
\* x? and x* (greedy)
Opt(x) == [t |-> "opt", of |-> x]
Star(x) == [t |-> "star", of |-> x]
\* [chars]*, [chars]+ (greedy) and [chars]+? (lazy)
Many(chars) == [t |-> "many", in |-> chars, min |-> 0, lazy |-> FALSE]
More(chars) == [t |-> "many", in |-> chars, min |-> 1, lazy |-> FALSE]
Few(chars) == [t |-> "many", in |-> chars, min |-> 1, lazy |-> TRUE]
\* (x), the capture group, and $
Group(x) == [t |-> "group", of |-> x]
End == [t |-> "end"]

Thread(at) == [at |-> at, from |-> 0, to |-> 0]

\* the number of characters of the class from index i of s on
RunLength(s, chars, i) ==
  Least({k \in 0..(Len(s) + 1 - i) : i + k > Len(s) \/ s[i + k] \notin chars})

\* the threads that leave the node, for every thread of ths in order
RECURSIVE Run(_, _, _)
Run(node, s, ths) ==
  CASE Len(ths) = 0 -> <<>>
    [] Len(ths) > 1 ->
         Run(node, s, SubSeq(ths, 1, Len(ths) \div 2))
           \o Run(node, s, SubSeq(ths, Len(ths) \div 2 + 1, Len(ths)))
    [] Len(ths) = 1 /\ node.t = "lit" ->
         IF StartsAt(s, node.w, ths[1].at)
         THEN <<[ths[1] EXCEPT !.at = ths[1].at + Len(node.w)]>>
         ELSE <<>>
    [] Len(ths) = 1 /\ node.t = "cls" ->
         IF ths[1].at <= Len(s) /\ s[ths[1].at] \in node.in
         THEN <<[ths[1] EXCEPT !.at = ths[1].at + 1]>>
         ELSE <<>>
    [] Len(ths) = 1 /\ node.t = "end" -> IF ths[1].at = Len(s) + 1 THEN ths ELSE <<>>
    [] Len(ths) = 1 /\ node.t = "seq" ->
         IF Len(node.of) = 0 THEN ths
         ELSE Run(Cat(Tail(node.of)), s, Run(Head(node.of), s, ths))
    [] Len(ths) = 1 /\ node.t = "alt" ->
         IF Len(node.of) = 0 THEN <<>>
         ELSE Run(Head(node.of), s, ths) \o Run(Alt(Tail(node.of)), s, ths)
    [] Len(ths) = 1 /\ node.t = "opt" -> Run(node.of, s, ths) \o ths
    [] Len(ths) = 1 /\ node.t = "star" -> Run(node, s, Run(node.of, s, ths)) \o ths
    \* the longest run first, or the shortest first when lazy
    [] Len(ths) = 1 /\ node.t = "many" ->
         LET n == RunLength(s, node.in, ths[1].at)
         IN  [k \in 1..(n - node.min + 1) |->
                [ths[1] EXCEPT !.at = IF node.lazy THEN @ + node.min + k - 1
                                      ELSE @ + n - k + 1]]
    [] Len(ths) = 1 /\ node.t = "group" ->
         LET inner == Run(node.of, s, ths)
         IN  [k \in 1..Len(inner) |->
                [inner[k] EXCEPT !.from = ths[1].at, !.to = inner[k].at - 1]]

NoMatch == <<>>

\* RegExp exec from index i on: the leftmost start that matches, with the
\* first thread from there; the match is s[start..at - 1], the capture
\* s[from..to]
Exec(pattern, s, i) ==
  LET starts == {j \in i..Len(s) : Len(Run(pattern, s, <<Thread(j)>>)) > 0}
  IN  IF starts = {} THEN NoMatch
      ELSE [start |-> Least(starts)] @@ Head(Run(pattern, s, <<Thread(Least(starts))>>))

\* String.prototype.match with the g flag: the whole matches <<first, last>>,
\* left to right, each search starting where the match before it ended
RECURSIVE ExecAll(_, _, _)
ExecAll(pattern, s, i) ==
  LET m == Exec(pattern, s, i)
  IN  IF m = NoMatch THEN <<>>
      ELSE << <<m.start, m.at - 1>> >> \o ExecAll(pattern, s, m.at)

\* match[1] of String.prototype.match without the g flag on a pattern with
\* the i flag; the empty text stands for no match and for an undefined group
Capture(pattern, message) ==
  LET m == Exec(pattern, toLowerCase(message), 1)
  IN  IF m = NoMatch \/ m.from = 0 THEN <<>> ELSE SubSeq(message, m.from, m.to)

\* \d and \s
Digit == Cls(Digits)
Blank == Cls(Spaces)

(***************************************************************************)
(* parser: extractAmount.                                                  *)
(***************************************************************************)
\* rs\.?
Rs == Cat(<<Lit(<<"r", "s">>), Opt(Lit(<<".">>))>>)

\* (\d+(?:\.\d{2})?)
PlainAmount == Group(Cat(<<More(Digits), Opt(Cat(<<Lit(<<".">>), Digit, Digit>>))>>))

\* (\d+(?:,\d{3})*(?:\.\d{1,2})?)
GroupedAmount ==
  Group(Cat(<<More(Digits), Star(Cat(<<Lit(<<",">>), Digit, Digit, Digit>>)),
              Opt(Cat(<<Lit(<<".">>), Digit, Opt(Digit)>>))>>))

amountPatterns ==
  << \* /(?:rs\.?|inr)\s+(\d+(?:\.\d{2})?)\s+debited/i
     Cat(<<Alt(<<Rs, Lit(<<"i", "n", "r">>)>>), More(Spaces), PlainAmount, More(Spaces),
           Lit(<<"d", "e", "b", "i", "t", "e", "d">>)>>),
     \* /(?:rs\.?)\s+(\d+(?:\.\d{2})?)\s+debited/i
     Cat(<<Rs, More(Spaces), PlainAmount, More(Spaces), Lit(<<"d", "e", "b", "i", "t", "e", "d">>)>>),
     \* /paid\s+(?:rs\.?|inr|RUPEE)\s*(\d+(?:,\d{3})*(?:\.\d{1,2})?)/i
     Cat(<<Lit(<<"p", "a", "i", "d">>), More(Spaces), Alt(<<Rs, Lit(<<"i", "n", "r">>), Lit(<<"RUPEE">>)>>), Many(Spaces),
           GroupedAmount>>),
     \* /(?:rs\.?|inr|RUPEE)\s*(\d+(?:,\d{3})*(?:\.\d{1,2})?)\s+(?:transferred|sent|paid)/i
     Cat(<<Alt(<<Rs, Lit(<<"i", "n", "r">>), Lit(<<"RUPEE">>)>>), Many(Spaces), GroupedAmount, More(Spaces),
           Alt(<<Lit(<<"t", "r", "a", "n", "s", "f", "e", "r", "r", "e", "d">>), Lit(<<"s", "e", "n", "t">>), Lit(<<"p", "a", "i", "d">>)>>)>>),
     \* /amount\s*:?\s*(?:rs\.?|inr|RUPEE)?\s*(\d+(?:,\d{3})*(?:\.\d{1,2})?)/i
     Cat(<<Lit(<<"a", "m", "o", "u", "n", "t">>), Many(Spaces), Opt(Lit(<<":">>)), Many(Spaces),
           Opt(Alt(<<Rs, Lit(<<"i", "n", "r">>), Lit(<<"RUPEE">>)>>)), Many(Spaces), GroupedAmount>>),
     \* /(?:inr|RUPEE)\s+(\d+(?:\.\d{2})?)/i
     Cat(<<Alt(<<Lit(<<"i", "n", "r">>), Lit(<<"RUPEE">>)>>), More(Spaces), PlainAmount>>),
     \* /(?:rs\.?|RUPEE)\s*(\d+(?:,\d{3})*(?:\.\d{1,2})?)/i
     Cat(<<Alt(<<Rs, Lit(<<"RUPEE">>)>>), Many(Spaces), GroupedAmount>>) >>

\* the value of a run of digits and commas, commas dropped (replace(/,/g, ''))
RECURSIVE IntegerValue(_, _)
IntegerValue(s, acc) ==
  IF Len(s) = 0 THEN acc
  ELSE IF s[1] \in Digits THEN IntegerValue(Tail(s), acc * 10 + DigitValue[s[1]])
  ELSE IntegerValue(Tail(s), acc)

\* parseFloat of a numeral \d+(?:,\d{3})*(?:\.\d{1,2})?, in hundredths; the
\* empty text gives 0
parseFloat(cap) ==
  LET dot == IF \E i \in 1..Len(cap) : cap[i] = "."
             THEN Least({i \in 1..Len(cap) : cap[i] = "."})
             ELSE Len(cap) + 1
  IN  IntegerValue(SubSeq(cap, 1, dot - 1), 0) * 100
      + (IF dot + 1 <= Len(cap) THEN DigitValue[cap[dot + 1]] * 10 ELSE 0)
      + (IF dot + 2 <= Len(cap) THEN DigitValue[cap[dot + 2]] ELSE 0)

\* for (const pattern of patterns): the amount of the first pattern whose
\* capture has a positive value; 0 stands for null
FirstAmount(amounts) ==
  IF \E k \in DOMAIN amounts : amounts[k] > 0
  THEN amounts[Least({k \in DOMAIN amounts : amounts[k] > 0})]
  ELSE 0

extractAmount(message) ==
  FirstAmount([k \in DOMAIN amountPatterns |-> parseFloat(Capture(amountPatterns[k], message))])

(***************************************************************************)
(* parser: extractMerchant.                                                *)
(***************************************************************************)
\* ([A-Za-z0-9\s&-]+?)
Name == Group(Few(NameChars))

\* ([A-Za-z0-9._-]+@[A-Za-z0-9._-]+)
Vpa == Group(Cat(<<More(HandleChars), Lit(<<"@">>), More(HandleChars)>>))

\* the words, each followed by \s+
Words(words) == Cat([k \in 1..(2 * Len(words)) |->
                       IF k % 2 = 1 THEN Lit(words[(k + 1) \div 2]) ELSE More(Spaces)])

merchantPatterns ==
  << \* /to\s+([A-Za-z0-9\s&-]+?)\s+(?:via|on|for|ref|upi|\.|$)/i
     Cat(<<Words(<< <<"t", "o">> >>), Name, More(Spaces),
           Alt(<<Lit(<<"v", "i", "a">>), Lit(<<"o", "n">>), Lit(<<"f", "o", "r">>), Lit(<<"r", "e", "f">>), Lit(<<"u", "p", "i">>),
                 Lit(<<".">>), End>>)>>),
     \* /paid\s+to\s+([A-Za-z0-9\s&-]+?)\s+(?:via|on|\.|$)/i
     Cat(<<Words(<< <<"p", "a", "i", "d">>, <<"t", "o">> >>), Name, More(Spaces),
           Alt(<<Lit(<<"v", "i", "a">>), Lit(<<"o", "n">>), Lit(<<".">>), End>>)>>),
     \* /Paid\s+to\s+([A-Za-z0-9\s&-]+?)\s+(?:via|on|\.|$)/i
     Cat(<<Words(<< <<"p", "a", "i", "d">>, <<"t", "o">> >>), Name, More(Spaces),
           Alt(<<Lit(<<"v", "i", "a">>), Lit(<<"o", "n">>), Lit(<<".">>), End>>)>>),
     \* /transferred\s+to\s+([A-Za-z0-9\s&-]+?)\s+(?:via|on|\.|$)/i
     Cat(<<Words(<< <<"t", "r", "a", "n", "s", "f", "e", "r", "r", "e", "d">>, <<"t", "o">> >>), Name, More(Spaces),
           Alt(<<Lit(<<"v", "i", "a">>), Lit(<<"o", "n">>), Lit(<<".">>), End>>)>>),
     \* /sent\s+to\s+([A-Za-z0-9\s&-]+?)\s+(?:via|on|\.|$)/i
     Cat(<<Words(<< <<"s", "e", "n", "t">>, <<"t", "o">> >>), Name, More(Spaces),
           Alt(<<Lit(<<"v", "i", "a">>), Lit(<<"o", "n">>), Lit(<<".">>), End>>)>>),
     \* /VPA\s+([A-Za-z0-9._-]+@[A-Za-z0-9._-]+)/i
     Cat(<<Words(<< <<"v", "p", "a">> >>), Vpa>>),
     \* /to\s+VPA\s+([A-Za-z0-9._-]+@[A-Za-z0-9._-]+)/i
     Cat(<<Words(<< <<"t", "o">>, <<"v", "p", "a">> >>), Vpa>>),
     \* /in\s+favour\s+of\s+([A-Za-z0-9\s&-]+?)(?:\s+via|\s+on|\.|$)/i
     Cat(<<Words(<< <<"i", "n">>, <<"f", "a", "v", "o", "u", "r">>, <<"o", "f">> >>), Name,
           Alt(<<Cat(<<More(Spaces), Lit(<<"v", "i", "a">>)>>), Cat(<<More(Spaces), Lit(<<"o", "n">>)>>),
                 Lit(<<".">>), End>>)>>),
     \* /made\s+to\s+([A-Za-z0-9\s&-]+?)(?:\s+via|\.|$)/i
     Cat(<<Words(<< <<"m", "a", "d", "e">>, <<"t", "o">> >>), Name,
           Alt(<<Cat(<<More(Spaces), Lit(<<"v", "i", "a">>)>>), Lit(<<".">>), End>>)>>) >>

\* replace(/\s+/g, ' ')
RECURSIVE CollapseSpaces(_)
CollapseSpaces(s) ==
  IF Len(s) = 0 THEN s
  ELSE IF s[1] \in Spaces /\ Len(s) > 1 /\ s[2] \in Spaces THEN CollapseSpaces(Tail(s))
  ELSE <<IF s[1] \in Spaces THEN " " ELSE s[1]>> \o CollapseSpaces(Tail(s))

\* the clean-up of a capture: trim, replace(/\s+/g, ' '),
\* replace(/[^\w\s@._-]/g, ''), trim
CleanMerchant(cap) ==
  trim(SelectSeq(CollapseSpaces(trim(cap)),
                 LAMBDA c : c \in WordChars \cup Spaces \cup {"@", ".", "-"}))

\* for (const pattern of patterns): the first cleaned capture of more than
\* one and fewer than a hundred characters, else 'Unknown Merchant'
FirstMerchant(merchants) ==
  IF \E k \in DOMAIN merchants : Len(merchants[k]) > 1 /\ Len(merchants[k]) < 100
  THEN merchants[Least({k \in DOMAIN merchants :
                          Len(merchants[k]) > 1 /\ Len(merchants[k]) < 100})]
  ELSE <<"U", "n", "k", "n", "o", "w", "n", " ", "M", "e", "r", "c", "h", "a", "n", "t">>

extractMerchant(message) ==
  FirstMerchant([k \in DOMAIN merchantPatterns |->
                   CleanMerchant(Capture(merchantPatterns[k], message))])

(***************************************************************************)
(* parser: extractSource, extractUPIRef.                                   *)
(***************************************************************************)
SourceOf(msgLower) ==
  IF Includes(msgLower, <<"g", "o", "o", "g", "l", "e", " ", "p", "a", "y">>) \/ Includes(msgLower, <<"g", "p", "a", "y">>)
     \/ Includes(msgLower, <<"g", " ", "p", "a", "y">>) THEN "GPay"
  ELSE IF Includes(msgLower, <<"p", "h", "o", "n", "e", "p", "e">>) \/ Includes(msgLower, <<"p", "h", "o", "n", "e", " ", "p", "e">>) THEN "PhonePe"
  ELSE IF Includes(msgLower, <<"p", "a", "y", "t", "m">>) THEN "Paytm"
  ELSE IF Includes(msgLower, <<"b", "h", "i", "m">>) THEN "BHIM"
  ELSE IF IncludesAny(msgLower, << <<"b", "a", "n", "k">>, <<"s", "b", "i">>, <<"h", "d", "f", "c">>, <<"i", "c", "i", "c", "i">>, <<"a", "x", "i", "s">>,
                                   <<"k", "o", "t", "a", "k">>, <<"p", "n", "b">> >>) THEN "Bank"
  ELSE "Unknown"

extractSource(message) == SourceOf(toLowerCase(message))

refPatterns ==
  << \* /(?:upi ref|ref no|reference|ref id|utr)(?:\s?:?\s?)(\w+)/gi
     Cat(<<Alt(<<Lit(<<"u", "p", "i", " ", "r", "e", "f">>), Lit(<<"r", "e", "f", " ", "n", "o">>), Lit(<<"r", "e", "f", "e", "r", "e", "n", "c", "e">>), Lit(<<"r", "e", "f", " ", "i", "d">>),
                 Lit(<<"u", "t", "r">>)>>),
           Opt(Blank), Opt(Lit(<<":">>)), Opt(Blank), Group(More(WordChars))>>),
     \* /(\d{12})/g
     Group(Cat([k \in 1..12 |-> Digit])) >>

\* With the g flag match is the list of the whole matches, so match[1] is
\* the second whole match, not the capture group: a pattern yields its
\* second match trimmed, or else its first when that is twelve digits;
\* <<>> stands for going on to the next pattern
RefOfMatches(message, ms) ==
  IF Len(ms) >= 2 THEN trim(SubSeq(message, ms[2][1], ms[2][2]))
  ELSE IF Len(ms) = 1 /\ ms[1][2] - ms[1][1] = 11
            /\ \A x \in ms[1][1]..ms[1][2] : message[x] \in Digits
       THEN SubSeq(message, ms[1][1], ms[1][2])
  ELSE <<>>

\* for (const pattern of patterns): the first pattern that yields a
\* reference; <<>> stands for null
FirstRef(refs) ==
  IF \E k \in DOMAIN refs : refs[k] # <<>>
  THEN refs[Least({k \in DOMAIN refs : refs[k] # <<>>})]
  ELSE <<>>

extractUPIRef(message) ==
  FirstRef(<<RefOfMatches(message, ExecAll(refPatterns[1], toLowerCase(message), 1)),
             RefOfMatches(message, ExecAll(refPatterns[2], message, 1))>>)

(***************************************************************************)
(* categorizer: categoryKeywords and categorizeTransaction.                *)
(***************************************************************************)
\* Object.entries(categoryKeywords): the categories in declared order
categoryKeywords ==
  << [category |-> "Food",
       keywords |->
        << <<"z", "o", "m", "a", "t", "o">>, <<"s", "w", "i", "g", "g", "y">>, <<"u", "b", "e", "r", " ", "e", "a", "t", "s">>, <<"f", "o", "o", "d">>, <<"r", "e", "s", "t", "a", "u", "r", "a", "n", "t">>, <<"c", "a", "f", "e">>,
           <<"d", "o", "m", "i", "n", "o", "s">>, <<"p", "i", "z", "z", "a">>, <<"b", "u", "r", "g", "e", "r">>, <<"m", "c", "d", "o", "n", "a", "l", "d", "s">>, <<"k", "f", "c">>, <<"s", "u", "b", "w", "a", "y">>,
           <<"s", "t", "a", "r", "b", "u", "c", "k", "s">>, <<"d", "u", "n", "k", "i", "n">>, <<"b", "i", "r", "y", "a", "n", "i">>, <<"d", "h", "a", "b", "a">>, <<"k", "i", "t", "c", "h", "e", "n">>, <<"m", "c", "d", "o", "n", "a", "l", "d">>,
           <<"b", "a", "r", "b", "e", "q", "u", "e">>, <<"b", "b", "q">>, <<"d", "i", "n", "i", "n", "g">>, <<"e", "a", "t", "e", "r", "y">>, <<"m", "e", "a", "l">>, <<"b", "r", "e", "a", "k", "f", "a", "s", "t">>, <<"l", "u", "n", "c", "h">>,
           <<"d", "i", "n", "n", "e", "r">>, <<"s", "n", "a", "c", "k">>, <<"b", "a", "k", "e", "r", "y">> >>],
     [category |-> "Shopping",
       keywords |->
        << <<"a", "m", "a", "z", "o", "n">>, <<"f", "l", "i", "p", "k", "a", "r", "t">>, <<"m", "y", "n", "t", "r", "a">>, <<"a", "j", "i", "o">>, <<"s", "n", "a", "p", "d", "e", "a", "l">>, <<"s", "h", "o", "p", "p", "i", "n", "g">>,
           <<"s", "h", "o", "p">>, <<"s", "t", "o", "r", "e">>, <<"m", "a", "l", "l">>, <<"r", "e", "t", "a", "i", "l">>, <<"m", "e", "e", "s", "h", "o">>, <<"f", "a", "s", "h", "i", "o", "n">>, <<"c", "l", "o", "t", "h", "i", "n", "g">>,
           <<"a", "p", "p", "a", "r", "e", "l">>, <<"e", "l", "e", "c", "t", "r", "o", "n", "i", "c", "s">>, <<"m", "o", "b", "i", "l", "e">>, <<"l", "a", "p", "t", "o", "p">>, <<"g", "a", "d", "g", "e", "t">>, <<"f", "o", "o", "t", "w", "e", "a", "r">>,
           <<"s", "h", "o", "e", "s">>, <<"b", "a", "g">>, <<"w", "a", "t", "c", "h">>, <<"j", "e", "w", "e", "l", "l", "e", "r", "y">>, <<"a", "c", "c", "e", "s", "s", "o", "r", "i", "e", "s">>, <<"n", "y", "k", "a", "a">>,
           <<"b", "e", "a", "u", "t", "y">>, <<"c", "o", "s", "m", "e", "t", "i", "c", "s">> >>],
     [category |-> "Bills",
       keywords |->
        << <<"e", "l", "e", "c", "t", "r", "i", "c", "i", "t", "y">>, <<"w", "a", "t", "e", "r">>, <<"g", "a", "s">>, <<"b", "i", "l", "l">>, <<"u", "t", "i", "l", "i", "t", "y">>, <<"b", "r", "o", "a", "d", "b", "a", "n", "d">>,
           <<"i", "n", "t", "e", "r", "n", "e", "t">>, <<"w", "i", "f", "i">>, <<"p", "o", "s", "t", "p", "a", "i", "d">>, <<"l", "a", "n", "d", "l", "i", "n", "e">>, <<"d", "t", "h">>, <<"c", "a", "b", "l", "e">>,
           <<"t", "a", "t", "a", " ", "s", "k", "y">>, <<"a", "i", "r", "t", "e", "l">>, <<"r", "e", "n", "t">>, <<"e", "m", "i">>, <<"i", "n", "s", "u", "r", "a", "n", "c", "e">>, <<"p", "r", "e", "m", "i", "u", "m">>, <<"l", "o", "a", "n">>,
           <<"c", "r", "e", "d", "i", "t", " ", "c", "a", "r", "d">>, <<"p", "a", "y", "m", "e", "n", "t">> >>],
     [category |-> "Travel",
       keywords |->
        << <<"u", "b", "e", "r">>, <<"o", "l", "a">>, <<"r", "a", "p", "i", "d", "o">>, <<"t", "a", "x", "i">>, <<"c", "a", "b">>, <<"m", "e", "t", "r", "o">>, <<"b", "u", "s">>, <<"t", "r", "a", "i", "n">>,
           <<"i", "r", "c", "t", "c">>, <<"f", "l", "i", "g", "h", "t">>, <<"a", "i", "r", "l", "i", "n", "e">>, <<"i", "n", "d", "i", "g", "o">>, <<"s", "p", "i", "c", "e", "j", "e", "t">>, <<"h", "o", "t", "e", "l">>,
           <<"b", "o", "o", "k", "i", "n", "g">>, <<"m", "a", "k", "e", "m", "y", "t", "r", "i", "p">>, <<"g", "o", "i", "b", "i", "b", "o">>, <<"y", "a", "t", "r", "a">>, <<"c", "l", "e", "a", "r", "t", "r", "i", "p">>, <<"r", "e", "d", "b", "u", "s">>,
           <<"f", "u", "e", "l">>, <<"p", "e", "t", "r", "o", "l">>, <<"d", "i", "e", "s", "e", "l">>, <<"p", "a", "r", "k", "i", "n", "g">>, <<"t", "o", "l", "l">>, <<"f", "a", "s", "t", "a", "g">>, <<"t", "r", "a", "v", "e", "l">> >>],
     [category |-> "Groceries",
       keywords |->
        << <<"b", "i", "g", "b", "a", "s", "k", "e", "t">>, <<"g", "r", "o", "f", "e", "r", "s">>, <<"b", "l", "i", "n", "k", "i", "t">>, <<"z", "e", "p", "t", "o">>, <<"d", "u", "n", "z", "o">>, <<"g", "r", "o", "c", "e", "r", "y">>,
           <<"v", "e", "g", "e", "t", "a", "b", "l", "e", "s">>, <<"f", "r", "u", "i", "t", "s">>, <<"s", "u", "p", "e", "r", "m", "a", "r", "k", "e", "t">>, <<"d", "m", "a", "r", "t">>, <<"r", "e", "l", "i", "a", "n", "c", "e", " ", "f", "r", "e", "s", "h">>,
           <<"m", "o", "r", "e">>, <<"k", "i", "r", "a", "n", "a">>, <<"p", "r", "o", "v", "i", "s", "i", "o", "n", "s">>, <<"d", "a", "i", "r", "y">>, <<"m", "i", "l", "k">>, <<"b", "r", "e", "a", "d">>, <<"e", "g", "g">> >>],
     [category |-> "Recharge",
       keywords |->
        << <<"r", "e", "c", "h", "a", "r", "g", "e">>, <<"p", "r", "e", "p", "a", "i", "d">>, <<"m", "o", "b", "i", "l", "e", " ", "r", "e", "c", "h", "a", "r", "g", "e">>, <<"a", "i", "r", "t", "e", "l">>, <<"j", "i", "o">>, <<"v", "o", "d", "a", "f", "o", "n", "e">>,
           <<"v", "i">>, <<"b", "s", "n", "l">>, <<"t", "o", "p", "u", "p">>, <<"t", "o", "p", "-", "u", "p">>, <<"t", "o", "p", " ", "u", "p">>, <<"p", "a", "y", "t", "m">>, <<"p", "h", "o", "n", "e", "p", "e">>,
           <<"g", "p", "a", "y">> >>],
     [category |-> "Entertainment",
       keywords |->
        << <<"n", "e", "t", "f", "l", "i", "x">>, <<"p", "r", "i", "m", "e">>, <<"h", "o", "t", "s", "t", "a", "r">>, <<"d", "i", "s", "n", "e", "y">>, <<"s", "p", "o", "t", "i", "f", "y">>, <<"y", "o", "u", "t", "u", "b", "e">>,
           <<"m", "o", "v", "i", "e">>, <<"t", "h", "e", "a", "t", "r", "e">>, <<"c", "i", "n", "e", "m", "a">>, <<"p", "v", "r">>, <<"i", "n", "o", "x">>, <<"g", "a", "m", "e">>, <<"g", "a", "m", "i", "n", "g">>,
           <<"s", "t", "e", "a", "m">>, <<"e", "n", "t", "e", "r", "t", "a", "i", "n", "m", "e", "n", "t">>, <<"s", "u", "b", "s", "c", "r", "i", "p", "t", "i", "o", "n">>, <<"m", "u", "s", "i", "c">>, <<"c", "o", "n", "c", "e", "r", "t">>, <<"s", "h", "o", "w">>,
           <<"e", "v", "e", "n", "t">>, <<"t", "i", "c", "k", "e", "t">>, <<"b", "o", "o", "k", "m", "y", "s", "h", "o", "w">> >>],
     [category |-> "Healthcare",
       keywords |->
        << <<"h", "o", "s", "p", "i", "t", "a", "l">>, <<"c", "l", "i", "n", "i", "c">>, <<"d", "o", "c", "t", "o", "r">>, <<"p", "h", "a", "r", "m", "a", "c", "y">>, <<"m", "e", "d", "i", "c", "i", "n", "e">>, <<"m", "e", "d", "i", "c", "a", "l">>,
           <<"h", "e", "a", "l", "t", "h">>, <<"a", "p", "o", "l", "l", "o">>, <<"m", "e", "d", "p", "l", "u", "s">>, <<"n", "e", "t", "m", "e", "d", "s">>, <<"1", "m", "g">>, <<"p", "r", "a", "c", "t", "o">>, <<"l", "a", "b">>,
           <<"d", "i", "a", "g", "n", "o", "s", "t", "i", "c">>, <<"t", "e", "s", "t">>, <<"c", "h", "e", "c", "k", "u", "p">>, <<"c", "o", "n", "s", "u", "l", "t", "a", "t", "i", "o", "n">>, <<"t", "r", "e", "a", "t", "m", "e", "n", "t">> >>],
     [category |-> "Others",
       keywords |->
        << >>] >>

\* for (const [category, keywords] of Object.entries(categoryKeywords)): the
\* first category other than Others one of whose keywords the merchant includes
HasKeyword(merchantLower, keywords) ==
  \E k \in 1..Len(keywords) : Includes(merchantLower, toLowerCase(keywords[k]))

CategoryFrom(merchantLower, table) ==
  IF \E n \in 1..Len(table) :
       table[n].category # "Others" /\ HasKeyword(merchantLower, table[n].keywords)
  THEN table[Least({n \in 1..Len(table) :
                     table[n].category # "Others"
                     /\ HasKeyword(merchantLower, table[n].keywords)})].category
  ELSE "Others"

\* a categorizer that returns the last category with a keyword, not the first
categorizeTransactionLastMatch(merchant) ==
  CategoryFrom(trim(toLowerCase(merchant)),
               [n \in 1..Len(categoryKeywords) |->
                  categoryKeywords[Len(categoryKeywords) + 1 - n]])

categorizeTransaction(merchant) == CategoryFrom(trim(toLowerCase(merchant)), categoryKeywords)

(***************************************************************************)
(* parser: parseSMS.  gate names the return that rejected the message      *)
(* (the code returns null at each of them); amount 0, the empty text and   *)
(* time 0 stand for null / undefined.                                      *)
(***************************************************************************)
\* parser:25-43: the amount and merchant gates and the returned fields
ParsedFields(message, amount, merchant) ==
  IF amount <= 0 THEN [ok |-> FALSE, gate |-> "no-amount"]
  ELSE IF Len(merchant) = 0 THEN [ok |-> FALSE, gate |-> "no-merchant"]
  ELSE [ok |-> TRUE, gate |-> "parsed",
        amount |-> amount,
        merchant |-> merchant,
        source |-> extractSource(message),
        upiRef |-> extractUPIRef(message),
        rawMessage |-> message]

\* parseSMS without the failure gate of lines 20-23
parseSMSWithoutFailureGate(message) ==
  IF ~isUPITransaction(message) THEN [ok |-> FALSE, gate |-> "not-a-transaction"]
  ELSE ParsedFields(message, extractAmount(message), extractMerchant(message))

parseSMS(message) ==
  IF ~isUPITransaction(message) THEN [ok |-> FALSE, gate |-> "not-a-transaction"]
  ELSE IF isFailedTransaction(message) THEN [ok |-> FALSE, gate |-> "failed-transaction"]
  ELSE ParsedFields(message, extractAmount(message), extractMerchant(message))

(***************************************************************************)
(* The messages delivered to processSingleSMS.                             *)
(***************************************************************************)
SmsZomato == <<"R", "s", " ", "4", "5", "0", ".", "0", "0", " ", "d", "e", "b", "i", "t", "e", "d", " ", "t", "o", " ", "Z", "o", "m", "a", "t", "o", " ", "v", "i", "a", " ", "U", "P", "I", " ", "R", "e", "f", " ", "4", "3", "3", "8", "4", "7", "3", "6", "2", "8", "4", "7">>
SmsZomatoAgain == <<"P", "a", "i", "d", " ", "R", "s", ".", "4", "5", "0", " ", "t", "o", " ", "Z", "o", "m", "a", "t", "o", ".", " ", "U", "P", "I", " ", "R", "e", "f", " ", "4", "3", "3", "8", "4", "7", "3", "6", "2", "8", "4", "7">>
SmsOla == <<"R", "s", " ", "2", "0", ".", "0", "0", " ", "d", "e", "b", "i", "t", "e", "d", " ", "t", "o", " ", "O", "l", "a", " ", "v", "i", "a", " ", "G", "P", "a", "y">>
SmsFailed == <<"R", "s", " ", "9", "9", ".", "0", "0", " ", "d", "e", "b", "i", "t", "e", "d", " ", "t", "o", " ", "U", "b", "e", "r", " ", "f", "a", "i", "l", "e", "d">>
SmsOtpFailed == <<"O", "T", "P", " ", "1", "2", "3", "4", "5", "6", " ", "p", "a", "y", "m", "e", "n", "t", " ", "f", "a", "i", "l", "e", "d">>
SmsLoginFailed == <<"L", "o", "g", "i", "n", " ", "f", "a", "i", "l", "e", "d">>
SmsPromo == <<"C", "o", "n", "g", "r", "a", "t", "u", "l", "a", "t", "i", "o", "n", "s", "!", " ", "Y", "o", "u", " ", "h", "a", "v", "e", " ", "w", "o", "n", " ", "R", "s", ".", "1", "0", ",", "0", "0", "0", " ", "c", "a", "s", "h", "b", "a", "c", "k">>
SmsCashback == <<"R", "s", " ", "3", "0", ".", "0", "0", " ", "d", "e", "b", "i", "t", "e", "d", " ", "t", "o", " ", "O", "l", "a", ".", " ", "C", "a", "s", "h", "b", "a", "c", "k", " ", "o", "f", "f", "e", "r">>
SmsGrouped == <<"I", "N", "R", " ", "1", "2", ",", "3", "4", "5", ".", "5", "0", " ", "d", "e", "b", "i", "t", "e", "d", " ", "t", "o", " ", "O", "l", "a", " ", "v", "i", "a", " ", "U", "P", "I">>

Texts ==
  {SmsZomato, SmsZomatoAgain, SmsOla, SmsFailed, SmsOtpFailed, SmsLoginFailed, SmsPromo,
   SmsCashback, SmsGrouped}

\* parseSMS, isOTPMessage and isPromotionalMessage of every message
Parsed == [m \in Texts |-> parseSMS(m)]
PreFiltered == [m \in Texts |-> isOTPMessage(m) \/ isPromotionalMessage(m)]

(***************************************************************************)
(* State.                                                                  *)
(*                                                                         *)
(* An action is one piece of a handler between two awaits: the awaited     *)
(* I/O takes effect and the code after it runs up to the next await.       *)
(***************************************************************************)
VARIABLES
  sqliteOk,           \* SQLite.openDatabase / db.transaction work on this platform
  asyncOk,            \* AsyncStorage getItem / setItem work
  now,                \* the clock read by Date.now() and new Date()
  sqlRows,            \* db.ts: the rows of table transactions, in rowid order
  sqlSeq,             \* db.ts: the AUTOINCREMENT high-water mark of the table
  stored,             \* db.ts: the value under STORAGE_KEY in AsyncStorage
  transactionsCache,  \* db.ts:29
  nextId,             \* db.ts:30
  remote,             \* the Firestore collection users/default/transactions
  autoKeys,           \* the number of document ids Firestore has generated
  currentStatus,      \* syncService.ts:17
  lastSyncStored,     \* syncService.ts: the value under LAST_SYNC_KEY
  uploads,            \* the fire-and-forget uploads started and not yet settled
  th,                 \* the state of every running call, by caller
  log,                \* the results returned to the callers, in order
  registered,         \* the 'onSMSReceived' listeners DeviceEventEmitter holds
  smsListener         \* smsReader.ts: the subscription startSMSMonitoring kept

vars == <<sqliteOk, asyncOk, now, sqlRows, sqlSeq, stored, transactionsCache, nextId,
          remote, autoKeys, currentStatus, lastSyncStored, uploads, th, log,
          registered, smsListener>>

\* what no handler of the stores changes: the platform and the SMS subscriptions
envVars == <<sqliteOk, asyncOk, registered, smsListener>>
dbVars == <<sqlRows, sqlSeq, stored, transactionsCache, nextId>>
remoteVars == <<remote, autoKeys>>
statusVars == <<currentStatus, lastSyncStored>>

\* the callers of processSingleSMS and of syncWithFirestore, and the
\* onSnapshot callback of enableRealtimeSync
Ingesters == {"sms1", "sms2"}
Syncers == {"sync1", "sync2"}
Listeners == {"live1"}
Callers == Ingesters \cup Syncers \cup Listeners

NoText == <<>>

(***************************************************************************)
(* types: Transaction.  id 0, createdAt 0, date 0, category "" and the     *)
(* empty text stand for an undefined or null field.                        *)
(***************************************************************************)
Transaction(id, amount, merchant, category, date, source, upiRef, rawMessage, createdAt) ==
  [id |-> id, amount |-> amount, merchant |-> merchant, category |-> category,
   date |-> date, source |-> source, upiRef |-> upiRef, rawMessage |-> rawMessage,
   createdAt |-> createdAt]

NoTransaction == Transaction(0, 0, NoText, "", 0, "", NoText, NoText, 0)

Max(a, b) == IF a >= b THEN a ELSE b

\* Math.max(...transactions.map(t => t.id || 0))
RECURSIVE MaxId(_)
MaxId(txs) == IF Len(txs) = 0 THEN 0 ELSE Max(txs[1].id, MaxId(Tail(txs)))

(***************************************************************************)
(* db.ts: loadTransactions.                                                *)
(***************************************************************************)
\* ORDER BY date DESC; rows of equal date stay in rowid order
RECURSIVE InsertByDate(_, _)
InsertByDate(sorted, row) ==
  IF Len(sorted) = 0 THEN <<row>>
  ELSE IF sorted[1].date < row.date THEN <<row>> \o sorted
  ELSE <<sorted[1]>> \o InsertByDate(Tail(sorted), row)

RECURSIVE OrderByDateDesc(_)
OrderByDateDesc(rows) ==
  IF Len(rows) = 0 THEN <<>>
  ELSE InsertByDate(OrderByDateDesc(SubSeq(rows, 1, Len(rows) - 1)), rows[Len(rows)])

\* db.ts:72-82: a row as loadTransactions hands it out
RowToTransaction(r, t) ==
  Transaction(r.id, r.amount,
              IF Len(r.merchant) > 0 THEN r.merchant ELSE <<"U", "n", "k", "n", "o", "w", "n">>,
              IF r.category # "" THEN r.category ELSE "Uncategorized",
              IF r.date # 0 THEN r.date ELSE IF r.createdAt # 0 THEN r.createdAt ELSE t,
              IF r.source # "" THEN r.source ELSE "sms",
              r.upiRef, r.rawMessage,
              IF r.createdAt # 0 THEN r.createdAt ELSE t)

SelectAll(rows, t) ==
  LET sorted == OrderByDateDesc(rows)
  IN  [i \in 1..Len(sorted) |-> RowToTransaction(sorted[i], t)]

\* what loadTransactions returns: the SQLite rows, else the AsyncStorage
\* list (the cache when nothing is stored), else the empty list
loadTransactions ==
  IF sqliteOk THEN SelectAll(sqlRows, now)
  ELSE IF asyncOk THEN (IF stored.present THEN stored.items ELSE transactionsCache)
  ELSE <<>>

\* transactionsCache after loadTransactions (db.ts:94, db.ts:104)
CacheAfterLoad ==
  IF sqliteOk THEN SelectAll(sqlRows, now)
  ELSE IF asyncOk /\ stored.present THEN stored.items
  ELSE transactionsCache

\* nextId after loadTransactions (db.ts:95-97, db.ts:105-107)
NextIdAfterLoad ==
  IF (sqliteOk \/ (asyncOk /\ stored.present)) /\ Len(CacheAfterLoad) > 0
  THEN MaxId(CacheAfterLoad) + 1
  ELSE nextId

\* db.ts:387-390
transactionExists(value) ==
  \E i \in 1..Len(loadTransactions) :
    loadTransactions[i].upiRef = value \/ loadTransactions[i].rawMessage = value

(***************************************************************************)
(* db.ts: insertTransaction.                                               *)
(***************************************************************************)
\* db.ts:199-201: the row INSERT stores; the id of the argument is not among
\* the inserted columns, AUTOINCREMENT assigns it
InsertedRow(transaction, rowid, t) ==
  LET createdAt == IF transaction.createdAt # 0 THEN transaction.createdAt ELSE t
  IN  Transaction(rowid, transaction.amount, transaction.merchant, transaction.category,
                  IF transaction.date # 0 THEN transaction.date ELSE createdAt,
                  IF transaction.source # "" THEN transaction.source ELSE "manual",
                  transaction.upiRef, transaction.rawMessage, createdAt)

\* INTEGER PRIMARY KEY AUTOINCREMENT: one more than the largest rowid ever used
NextRowId == Max(sqlSeq, MaxId(sqlRows)) + 1

\* db.ts:223: return transaction.id || nextId++, evaluated after the reload
ReturnedId(transaction) == IF transaction.id # 0 THEN transaction.id ELSE NextIdAfterLoad

NextIdAfterReturn(transaction) ==
  IF transaction.id # 0 THEN NextIdAfterLoad ELSE NextIdAfterLoad + 1

\* db.ts:227-232: the record of the AsyncStorage fallback
FallbackTransaction(transaction, t) ==
  [transaction EXCEPT !.id = NextIdAfterLoad,
                      !.createdAt = IF transaction.createdAt # 0 THEN transaction.createdAt ELSE t]

(***************************************************************************)
(* The Firestore collection.  A document is [key, data, syncedAt]; its key *)
(* is <<"id", n>> for doc(n) and <<"auto", n>> for the n-th id Firestore   *)
(* generated for doc(undefined).                                           *)
(***************************************************************************)
DocKey(transaction) ==
  IF transaction.id # 0 THEN <<"id", transaction.id>> ELSE <<"auto", autoKeys + 1>>

HasDoc(key) == \E d \in remote : d.key = key

DocAt(key) == CHOOSE d \in remote : d.key = key

\* syncService.ts:55-58: doc(transaction.id).set({...transaction, syncedAt}, {merge: true});
\* a field the argument does not carry (id, createdAt) keeps the value of the document
SetMerge(transaction, t) ==
  LET key == DocKey(transaction)
      old == IF HasDoc(key) THEN DocAt(key).data ELSE NoTransaction
      data == [transaction EXCEPT
                 !.id = IF transaction.id # 0 THEN transaction.id ELSE old.id,
                 !.createdAt = IF transaction.createdAt # 0 THEN transaction.createdAt
                               ELSE old.createdAt]
  IN  {d \in remote : d.key # key} \cup {[key |-> key, data |-> data, syncedAt |-> t]}

\* the documents in the order of a collection get(): by document id
KeyBefore(a, b) ==
  \/ a[1] = "id" /\ b[1] = "auto"
  \/ a[1] = b[1] /\ a[2] < b[2]

RECURSIVE DocsInOrder(_)
DocsInOrder(docs) ==
  IF docs = {} THEN <<>>
  ELSE LET first == CHOOSE d \in docs : \A e \in docs \ {d} : KeyBefore(d.key, e.key)
       IN  <<first>> \o DocsInOrder(docs \ {first})

\* syncService.ts:75-89: the fields downloadTransactions copies (no syncedAt)
downloadTransactions ==
  LET docs == DocsInOrder(remote)
  IN  [i \in 1..Len(docs) |-> docs[i].data]

(***************************************************************************)
(* syncService.ts: the merge of syncWithFirestore.                         *)
(***************************************************************************)
Null == "null"

\* new Map(list.map(t => [t.id, t])).get(id): the last entry of that id
HasId(txs, id) == \E i \in 1..Len(txs) : txs[i].id = id

MapGet(txs, id) ==
  txs[CHOOSE i \in 1..Len(txs) : txs[i].id = id /\ \A j \in (i + 1)..Len(txs) : txs[j].id # id]

\* a.createdAt > b.createdAt; a comparison with undefined is false
Newer(a, b) == a.createdAt # 0 /\ b.createdAt # 0 /\ a.createdAt > b.createdAt

\* syncService.ts:129-137
NeedsUpload(localTx, firestoreTransactions) ==
  \/ ~HasId(firestoreTransactions, localTx.id)
  \/ Newer(localTx, MapGet(firestoreTransactions, localTx.id))

\* syncService.ts:145-154
NeedsDownload(firestoreTx, localTransactions) ==
  \/ ~HasId(localTransactions, firestoreTx.id)
  \/ Newer(firestoreTx, MapGet(localTransactions, firestoreTx.id))

\* the first index from i on whose entry the loop acts on, 0 when there is none
NextUpload(localTransactions, firestoreTransactions, i) ==
  LET I == {k \in i..Len(localTransactions) :
              NeedsUpload(localTransactions[k], firestoreTransactions)}
  IN  IF I = {} THEN 0 ELSE Least(I)

NextDownload(localTransactions, firestoreTransactions, i) ==
  LET I == {k \in i..Len(firestoreTransactions) :
              NeedsDownload(firestoreTransactions[k], localTransactions)}
  IN  IF I = {} THEN 0 ELSE Least(I)

(***************************************************************************)
(* Calls in progress and the results they returned.                        *)
(***************************************************************************)
\* started: the number of calls that had returned when this one began
Idle ==
  [pc |-> "idle", cont |-> "", msg |-> NoText, tx |-> NoTransaction, ret |-> 0,
   localTransactions |-> <<>>, firestoreTransactions |-> <<>>, i |-> 0, saving |-> <<>>,
   uploadCount |-> 0, downloadCount |-> 0, lastSyncTime |-> 0,
   pending |-> FALSE, changes |-> <<>>, started |-> 0]

\* one returned call: processSingleSMS gives result "inserted" or "skipped"
\* (true / false) and the return that produced it; syncWithFirestore gives
\* "ok", "skipped" (the early return) or "error" (the rethrown error); the
\* onSnapshot callback gives "ok", or "skipped" for a snapshot of own writes
Result(caller, op, msg, result, gate, id, uploadCount, downloadCount) ==
  [caller |-> caller, op |-> op, msg |-> msg, result |-> result, gate |-> gate,
   id |-> id, uploadCount |-> uploadCount, downloadCount |-> downloadCount]

CanCall == Len(log) + Cardinality({c \in Callers : th[c].pc # "idle"}) < MaxCalls

(***************************************************************************)
(* syncService.ts: where syncWithFirestore goes on after an await.         *)
(***************************************************************************)
\* the download loop from index i: the next insertTransaction, or line 157
ResumeDownloads(r, i, t) ==
  LET k == NextDownload(r.localTransactions, r.firestoreTransactions, i)
  IN  IF k > 0
      THEN [r EXCEPT !.pc = "insert", !.cont = "sync", !.i = k,
                     !.tx = r.firestoreTransactions[k]]
      ELSE [r EXCEPT !.pc = "sync_finish", !.i = 0, !.lastSyncTime = t]

\* the upload loop from index i: the next uploadTransaction, or the download loop
ResumeUploads(r, i, t) ==
  LET k == NextUpload(r.localTransactions, r.firestoreTransactions, i)
  IN  IF k > 0 THEN [r EXCEPT !.pc = "sync_upload", !.i = k]
      ELSE ResumeDownloads(r, 1, t)

\* a catch block that records the error and leaves isSyncing set
FailedStatusStillSyncing(message) ==
  [currentStatus EXCEPT !.error = IF message # "" THEN message ELSE "Sync failed"]

\* syncService.ts:39-45 updateSyncStatus({...}) of the catch block, 168-175
FailedStatus(message) ==
  [currentStatus EXCEPT !.isSyncing = FALSE,
                        !.error = IF message # "" THEN message ELSE "Sync failed"]

\* error.message of a rejected Firestore or AsyncStorage call
ErrorMessages == {"", "unavailable"}

SyncFails(c) ==
  /\ \E message \in ErrorMessages : currentStatus' = FailedStatus(message)
  /\ th' = [th EXCEPT ![c] = Idle]
  /\ log' = Append(log, Result(c, "sync", NoText, "error", "catch", 0,
                               th[c].uploadCount, th[c].downloadCount))

(***************************************************************************)
(* db.ts: insertTransaction, for the caller c that awaits it.              *)
(***************************************************************************)
\* syncService.ts:190-208: the loop over the changes from index i: the next
\* insertTransaction, or the end of the callback
ResumeChanges(r, i) ==
  IF \E k \in i..Len(r.changes) : r.changes[k].type \in {"added", "modified"}
  THEN [r EXCEPT !.pc = "insert", !.cont = "live",
                 !.i = Least({k \in i..Len(r.changes) :
                                r.changes[k].type \in {"added", "modified"}}),
                 !.tx = r.changes[Least({k \in i..Len(r.changes) :
                                           r.changes[k].type \in {"added", "modified"}})].data]
  ELSE [r EXCEPT !.pc = "live_done"]

\* the callback goes on after an await, or returns
LiveGoesOn(c, r) ==
  IF r.pc = "live_done"
  THEN /\ th' = [th EXCEPT ![c] = Idle]
       /\ log' = Append(log, Result(c, "live", NoText, "ok", "done", 0, 0, r.downloadCount))
  ELSE /\ th' = [th EXCEPT ![c] = r]
       /\ log' = log

\* the caller goes on with the returned id
AfterInsert(c, r, id, t) ==
  IF r.cont = "sync"
  THEN /\ th' = [th EXCEPT ![c] = ResumeDownloads(
                    [r EXCEPT !.downloadCount = r.downloadCount + 1, !.ret = id],
                    r.i + 1, t)]
       /\ log' = log
  ELSE IF r.cont = "live"
  THEN LiveGoesOn(c, ResumeChanges([r EXCEPT !.downloadCount = r.downloadCount + 1,
                                             !.ret = id], r.i + 1))
  ELSE /\ th' = [th EXCEPT ![c] = Idle]
       /\ log' = Append(log, Result(c, r.cont, r.msg, "inserted", "insert", id, 0, 0))

\* db.ts:191-210: the INSERT; when SQLite is unavailable the catch block starts
InsertSql(c) ==
  /\ th[c].pc = "insert"
  /\ IF sqliteOk
     THEN /\ Len(sqlRows) < MaxRows
          /\ sqlRows' = Append(sqlRows, InsertedRow(th[c].tx, NextRowId, now))
          /\ sqlSeq' = NextRowId
          /\ th' = [th EXCEPT ![c].pc = "insert_reload"]
     ELSE /\ th' = [th EXCEPT ![c].pc = "insert_fallback"]
          /\ UNCHANGED <<sqlRows, sqlSeq>>
  /\ UNCHANGED <<envVars, now, stored, transactionsCache, nextId, remoteVars, statusVars,
                 uploads, log>>

\* db.ts:212-223: reload, start the upload of the argument, return
InsertReload(c) ==
  /\ th[c].pc = "insert_reload"
  /\ transactionsCache' = CacheAfterLoad
  /\ nextId' = NextIdAfterReturn(th[c].tx)
  /\ uploads' = uploads \cup {th[c].tx}
  /\ AfterInsert(c, th[c], ReturnedId(th[c].tx), now)
  /\ UNCHANGED <<envVars, now, sqlRows, sqlSeq, stored, remoteVars, statusVars>>

\* db.ts:226-241: the fallback up to await saveTransactions, whose first
\* statement replaces the cache
InsertFallback(c) ==
  /\ th[c].pc = "insert_fallback"
  /\ Len(loadTransactions) < MaxRows
  /\ LET newTransaction == FallbackTransaction(th[c].tx, now)
         transactions == Append(loadTransactions, newTransaction)
     IN  /\ nextId' = NextIdAfterLoad + 1
         /\ transactionsCache' = transactions
         /\ uploads' = uploads \cup {newTransaction}
         /\ th' = [th EXCEPT ![c].pc = "insert_save", ![c].ret = newTransaction.id,
                             ![c].saving = transactions]
  /\ UNCHANGED <<envVars, now, sqlRows, sqlSeq, stored, remoteVars, statusVars, log>>

\* db.ts:117-124, 242-243: setItem settles (its error is only logged), return id;
\* AsyncStorage settles its calls in the order they were made, and the list of
\* an earlier call is never the longer one
InsertSave(c) ==
  /\ th[c].pc = "insert_save"
  /\ \A other \in Callers :
       th[other].pc = "insert_save" => Len(th[other].saving) >= Len(th[c].saving)
  /\ stored' = IF asyncOk THEN [present |-> TRUE, items |-> th[c].saving]
               ELSE stored
  /\ AfterInsert(c, th[c], th[c].ret, now)
  /\ UNCHANGED <<envVars, now, sqlRows, sqlSeq, transactionsCache, nextId, remoteVars,
                 statusVars, uploads>>

(***************************************************************************)
(* syncService.ts: uploadTransaction started by insertTransaction          *)
(* (db.ts:217-221, 236-240); a rejection is only logged.                   *)
(***************************************************************************)
CanPut(transaction) == transaction.id # 0 \/ autoKeys < MaxRemote

UploadSucceeds(u) ==
  /\ u \in uploads
  /\ CanPut(u)
  /\ remote' = SetMerge(u, now)
  /\ autoKeys' = IF u.id # 0 THEN autoKeys ELSE autoKeys + 1
  /\ uploads' = uploads \ {u}
  /\ UNCHANGED <<envVars, now, dbVars, statusVars, th, log>>

\* a rejected upload that reaches a caller as a result
UploadFailsSurfaces(u) ==
  /\ u \in uploads
  /\ uploads' = uploads \ {u}
  /\ log' = Append(log, Result("sms1", "ingest", u.rawMessage, "skipped", "catch", 0, 0, 0))
  /\ UNCHANGED <<envVars, now, dbVars, remoteVars, statusVars, th>>

UploadFails(u) ==
  /\ u \in uploads
  /\ uploads' = uploads \ {u}
  /\ UNCHANGED <<envVars, now, dbVars, remoteVars, statusVars, th, log>>

(***************************************************************************)
(* smsReader.ts: processSingleSMS.                                         *)
(***************************************************************************)
\* smsReader.ts:181-190: the pre-filter, then await transactionExists
Ingest(c, messageBody) ==
  /\ th[c].pc = "idle"
  /\ CanCall
  /\ IF PreFiltered[messageBody]
     THEN /\ log' = Append(log, Result(c, "ingest", messageBody, "skipped", "otp-or-promo",
                                       0, 0, 0))
          /\ th' = th
     ELSE /\ th' = [th EXCEPT ![c] = [Idle EXCEPT !.pc = "exists", !.msg = messageBody]]
          /\ log' = log
  /\ UNCHANGED <<envVars, now, dbVars, remoteVars, statusVars, uploads>>

\* smsReader.ts:190-218: the duplicate check, parseSMS, and the call of insertTransaction
IngestExists(c) ==
  /\ th[c].pc = "exists"
  /\ transactionsCache' = CacheAfterLoad
  /\ nextId' = NextIdAfterLoad
  /\ LET messageBody == th[c].msg
         parsed == Parsed[messageBody]
     IN  IF transactionExists(messageBody)
         THEN /\ log' = Append(log, Result(c, "ingest", messageBody, "skipped", "duplicate",
                                           0, 0, 0))
              /\ th' = [th EXCEPT ![c] = Idle]
         ELSE IF ~parsed.ok
         THEN /\ log' = Append(log, Result(c, "ingest", messageBody, "skipped", parsed.gate,
                                           0, 0, 0))
              /\ th' = [th EXCEPT ![c] = Idle]
         ELSE /\ th' = [th EXCEPT ![c].pc = "insert", ![c].cont = "ingest",
                          ![c].tx = Transaction(0, parsed.amount, parsed.merchant,
                                                categorizeTransaction(parsed.merchant),
                                                now, parsed.source, parsed.upiRef,
                                                parsed.rawMessage, 0)]
              /\ log' = log
  /\ UNCHANGED <<envVars, now, sqlRows, sqlSeq, stored, remoteVars, statusVars, uploads>>

(***************************************************************************)
(* db.ts: deleteTransaction.                                               *)
(***************************************************************************)
\* a delete that also removes the remote document of the id
deleteTransactionAndRemote(id) ==
  /\ CanCall
  /\ sqliteOk
  /\ sqlRows' = SelectSeq(sqlRows, LAMBDA r : r.id # id)
  /\ remote' = {d \in remote : d.data.id # id}
  /\ log' = Append(log, Result("app", "delete", NoText, "ok", "done", id, 0, 0))
  /\ UNCHANGED <<envVars, now, sqlSeq, stored, transactionsCache, nextId, autoKeys,
                 statusVars, uploads, th>>

\* db.ts:300-315: DELETE ... WHERE id = ?; without SQLite the loaded list is
\* filtered and saved (saveTransactions replaces the cache, the error of
\* setItem is only logged)
deleteTransaction(id) ==
  /\ CanCall
  /\ IF sqliteOk
     THEN /\ sqlRows' = SelectSeq(sqlRows, LAMBDA r : r.id # id)
          /\ UNCHANGED <<stored, transactionsCache, nextId>>
     ELSE LET filtered == SelectSeq(loadTransactions, LAMBDA t : t.id # id)
          IN  /\ transactionsCache' = filtered
              /\ nextId' = NextIdAfterLoad
              /\ stored' = IF asyncOk THEN [present |-> TRUE, items |-> filtered] ELSE stored
              /\ UNCHANGED sqlRows
  /\ log' = Append(log, Result("app", "delete", NoText, "ok", "done", id, 0, 0))
  /\ UNCHANGED <<envVars, now, sqlSeq, remoteVars, statusVars, uploads, th>>

\* db.ts:247-298: UPDATE of the given fields WHERE id = ?, reload, and the
\* upload of the reloaded record; without SQLite the loaded list is changed
\* at the index of the id, saved, and the changed record uploaded. A field of
\* updates that is 0, "" or empty is one the caller left out.
updateTransaction(id, updates) ==
  LET Merged(t) ==
        [t EXCEPT !.amount = IF updates.amount # 0 THEN updates.amount ELSE t.amount,
                  !.category = IF updates.category # "" THEN updates.category
                               ELSE t.category]
      Changed(txs) == [i \in 1..Len(txs) |-> IF txs[i].id = id THEN Merged(txs[i]) ELSE txs[i]]
      after == IF sqliteOk THEN SelectAll(Changed(sqlRows), now) ELSE Changed(loadTransactions)
  IN  /\ CanCall
      /\ sqlRows' = IF sqliteOk THEN Changed(sqlRows) ELSE sqlRows
      /\ transactionsCache' = IF sqliteOk \/ HasId(after, id) THEN after ELSE CacheAfterLoad
      /\ nextId' = IF sqliteOk /\ Len(after) > 0 THEN MaxId(after) + 1 ELSE NextIdAfterLoad
      /\ stored' = IF ~sqliteOk /\ asyncOk /\ HasId(after, id)
                   THEN [present |-> TRUE, items |-> after] ELSE stored
      /\ uploads' = IF HasId(after, id) THEN uploads \cup {MapGet(after, id)} ELSE uploads
      /\ log' = Append(log, Result("app", "update", NoText, "ok", "done", id, 0, 0))
      /\ UNCHANGED <<envVars, now, sqlSeq, remoteVars, statusVars, th>>

\* db.ts:397-400: saveTransactions([]), the only statement of the reset
deleteAllTransactions ==
  /\ CanCall
  /\ transactionsCache' = <<>>
  /\ stored' = IF asyncOk THEN [present |-> TRUE, items |-> <<>>] ELSE stored
  /\ log' = Append(log, Result("app", "reset", NoText, "ok", "done", 0, 0, 0))
  /\ UNCHANGED <<envVars, now, sqlRows, sqlSeq, nextId, remoteVars, statusVars, uploads, th>>

(***************************************************************************)
(* db.ts: initDatabase.                                                    *)
(***************************************************************************)
\* db.ts:137-187: the rows whose category is NULL, '' or 'Uncategorized' get
\* categorizeTransaction(merchant || 'Unknown')
migrateAndCategorizeRows(rows) ==
  [i \in 1..Len(rows) |->
     IF rows[i].category \in {"", "Uncategorized"}
     THEN [rows[i] EXCEPT !.category =
             categorizeTransaction(IF rows[i].merchant # NoText THEN rows[i].merchant
                                   ELSE <<"U", "n", "k", "n", "o", "w", "n">>)]
     ELSE rows[i]]

\* db.ts:126-133: loadTransactions, then the migration; without SQLite the
\* migration is skipped
initDatabase ==
  /\ CanCall
  /\ transactionsCache' = CacheAfterLoad
  /\ nextId' = NextIdAfterLoad
  /\ sqlRows' = IF sqliteOk THEN migrateAndCategorizeRows(sqlRows) ELSE sqlRows
  /\ log' = Append(log, Result("app", "init", NoText, "ok", "done", 0, 0, 0))
  /\ UNCHANGED <<envVars, now, sqlSeq, stored, remoteVars, statusVars, uploads, th>>

(***************************************************************************)
(* startSMSMonitoring and stopSMSMonitoring.  A subscription is named by   *)
(* the caller that runs its listener.                                      *)
(***************************************************************************)
\* lines 77-151 with the permissions granted: addListener, and the module
\* variable takes the new subscription
startSMSMonitoring(c) ==
  /\ c \notin registered
  /\ registered' = registered \cup {c}
  /\ smsListener' = c
  /\ UNCHANGED <<sqliteOk, asyncOk, now, dbVars, remoteVars, statusVars, uploads, th, log>>

\* lines 165-171: the kept subscription is removed, if there is one
stopSMSMonitoring ==
  /\ smsListener # "none"
  /\ registered' = registered \ {smsListener}
  /\ smsListener' = "none"
  /\ UNCHANGED <<sqliteOk, asyncOk, now, dbVars, remoteVars, statusVars, uploads, th, log>>

(***************************************************************************)
(* The listener of 'onSMSReceived' that startSMSMonitoring registers.      *)
(***************************************************************************)
\* the payloads of the native emitter: structured with amount, merchant and
\* reference; with amount and merchant; with a merchant only; body and
\* address only
NativeMessages ==
  {[body |-> SmsZomato, hasAmount |-> TRUE, amount |-> 45000, merchant |-> <<"Z", "o", "m", "a", "t", "o">>,
    upiRef |-> <<"4", "3", "3", "8", "4", "7", "3", "6", "2", "8", "4", "7">>],
   [body |-> <<"R", "s", " ", "9", "9", ".", "0", "0", " ", "d", "e", "b", "i", "t", "e", "d", " ", "t", "o", " ", "U", "b", "e", "r", " ", "E", "a", "t", "s">>, hasAmount |-> TRUE, amount |-> 9900,
    merchant |-> <<" ", "U", "b", "e", "r", " ", "E", "a", "t", "s">>, upiRef |-> NoText],
   [body |-> SmsOla, hasAmount |-> FALSE, amount |-> 0, merchant |-> <<"O", "l", "a">>,
    upiRef |-> NoText],
   [body |-> SmsOla, hasAmount |-> FALSE, amount |-> 0, merchant |-> NoText,
    upiRef |-> NoText]}

\* lines 100-111, 143-147: a structured payload goes to the duplicate check,
\* one with a body only to processSingleSMS
onSMSReceived(c, message) ==
  IF message.hasAmount \/ message.merchant # NoText \/ message.upiRef # NoText
  THEN /\ th[c].pc = "idle"
       /\ CanCall
       /\ th' = [th EXCEPT ![c] =
                   [Idle EXCEPT !.pc = "native_exists",
                                !.msg = IF message.upiRef # NoText THEN message.upiRef
                                        ELSE message.body,
                                !.tx = Transaction(0, message.amount,
                                         IF message.merchant # NoText THEN message.merchant
                                         ELSE <<"U", "n", "k", "n", "o", "w", "n">>,
                                         "", 0, "sms", message.upiRef, message.body, 0)]]
       /\ UNCHANGED <<envVars, now, dbVars, remoteVars, statusVars, uploads, log>>
  ELSE Ingest(c, message.body)

\* lines 111-140: transactionExists settles; the record is built and handed
\* to insertTransaction
onSMSReceivedExists(c) ==
  /\ th[c].pc = "native_exists"
  /\ transactionsCache' = CacheAfterLoad
  /\ nextId' = NextIdAfterLoad
  /\ IF transactionExists(th[c].msg)
     THEN /\ log' = Append(log, Result(c, "native", th[c].msg, "skipped", "duplicate", 0, 0, 0))
          /\ th' = [th EXCEPT ![c] = Idle]
     ELSE /\ th' = [th EXCEPT ![c].pc = "insert", ![c].cont = "native",
                              ![c].tx.category = categorizeTransaction(th[c].tx.merchant),
                              ![c].tx.date = now]
          /\ log' = log
  /\ UNCHANGED <<envVars, now, sqlRows, sqlSeq, stored, remoteVars, statusVars, uploads>>

(***************************************************************************)
(* syncService.ts: syncWithFirestore.                                      *)
(***************************************************************************)
\* syncWithFirestore without the early return of lines 105-108
SyncCallUnguarded(c) ==
  /\ th[c].pc = "idle"
  /\ CanCall
  /\ currentStatus' = [currentStatus EXCEPT !.isSyncing = TRUE, !.error = Null]
  /\ th' = [th EXCEPT ![c] = [Idle EXCEPT !.pc = "sync_load", !.started = Len(log)]]
  /\ UNCHANGED <<envVars, now, dbVars, remoteVars, lastSyncStored, uploads, log>>

\* syncService.ts:104-109
SyncCall(c) ==
  /\ th[c].pc = "idle"
  /\ CanCall
  /\ IF currentStatus.isSyncing
     THEN /\ log' = Append(log, Result(c, "sync", NoText, "skipped", "in-progress", 0, 0, 0))
          /\ UNCHANGED <<th, currentStatus>>
     ELSE /\ currentStatus' = [currentStatus EXCEPT !.isSyncing = TRUE, !.error = Null]
          /\ th' = [th EXCEPT ![c] = [Idle EXCEPT !.pc = "sync_load", !.started = Len(log)]]
          /\ log' = log
  /\ UNCHANGED <<envVars, now, dbVars, remoteVars, lastSyncStored, uploads>>

\* syncService.ts:110 with 39-41: a status listener throws while it is told of
\* isSyncing: true; currentStatus is already assigned, the call is outside the
\* try block, and the error leaves syncWithFirestore
SyncCallListenerThrows(c) ==
  /\ th[c].pc = "idle"
  /\ CanCall
  /\ ~currentStatus.isSyncing
  /\ currentStatus' = [currentStatus EXCEPT !.isSyncing = TRUE, !.error = Null]
  /\ log' = Append(log, Result(c, "sync", NoText, "error", "listener", 0, 0, 0))
  /\ UNCHANGED <<envVars, now, dbVars, remoteVars, lastSyncStored, uploads, th>>

\* syncService.ts:113
SyncLoad(c) ==
  /\ th[c].pc = "sync_load"
  /\ transactionsCache' = CacheAfterLoad
  /\ nextId' = NextIdAfterLoad
  /\ th' = [th EXCEPT ![c].pc = "sync_download", ![c].localTransactions = loadTransactions]
  /\ UNCHANGED <<envVars, now, sqlRows, sqlSeq, stored, remoteVars, statusVars, uploads, log>>

\* syncService.ts:117-138: the download, up to the first upload
SyncDownload(c) ==
  /\ th[c].pc = "sync_download"
  /\ th' = [th EXCEPT ![c] =
              ResumeUploads([th[c] EXCEPT !.firestoreTransactions = downloadTransactions],
                            1, now)]
  /\ UNCHANGED <<envVars, now, dbVars, remoteVars, statusVars, uploads, log>>

\* syncService.ts:131-136: one awaited uploadTransaction of the upload loop
SyncUpload(c) ==
  /\ th[c].pc = "sync_upload"
  /\ LET localTx == th[c].localTransactions[th[c].i]
     IN  /\ CanPut(localTx)
         /\ remote' = SetMerge(localTx, now)
         /\ autoKeys' = IF localTx.id # 0 THEN autoKeys ELSE autoKeys + 1
  /\ th' = [th EXCEPT ![c] =
              ResumeUploads([th[c] EXCEPT !.uploadCount = th[c].uploadCount + 1],
                            th[c].i + 1, now)]
  /\ UNCHANGED <<envVars, now, dbVars, statusVars, uploads, log>>

\* syncService.ts:93-96, 61-64, 168-175: downloadTransactions or
\* uploadTransaction rejects and the catch block runs
SyncRemoteFails(c) ==
  /\ th[c].pc \in {"sync_download", "sync_upload"}
  /\ SyncFails(c)
  /\ UNCHANGED <<envVars, now, dbVars, remoteVars, lastSyncStored, uploads>>

\* syncService.ts:157-167: setItem(LAST_SYNC_KEY) settles; when it rejects
\* the catch block runs
SyncFinish(c) ==
  /\ th[c].pc = "sync_finish"
  /\ IF asyncOk
     THEN /\ lastSyncStored' = th[c].lastSyncTime
          /\ currentStatus' = [lastSyncTime |-> th[c].lastSyncTime, isSyncing |-> FALSE,
                               pendingUploads |-> 0, error |-> Null]
          /\ th' = [th EXCEPT ![c] = Idle]
          /\ log' = Append(log, Result(c, "sync", NoText, "ok", "done", 0,
                                       th[c].uploadCount, th[c].downloadCount))
     ELSE /\ SyncFails(c)
          /\ UNCHANGED lastSyncStored
  /\ UNCHANGED <<envVars, now, dbVars, remoteVars, uploads>>

(***************************************************************************)
(* syncService.ts: the onSnapshot callback of enableRealtimeSync.          *)
(***************************************************************************)
ChangeTypes == {"added", "modified", "removed"}

\* snapshot.docChanges(): up to MaxChanges documents of the collection, each
\* listed once with the type of its change
Listings ==
  {changes \in UNION {[1..n -> [type : ChangeTypes, data : {d.data : d \in remote}]] :
                        n \in 1..MaxChanges} :
     \A i \in 1..Len(changes) : \A j \in 1..Len(changes) :
       changes[i].data = changes[j].data => i = j}

\* a snapshot without the listener's guard of line 186
SnapshotUnguarded(c, hasPendingWrites, changes) ==
  /\ th[c].pc = "idle"
  /\ CanCall
  /\ LiveGoesOn(c, ResumeChanges([Idle EXCEPT !.pending = hasPendingWrites,
                                              !.changes = changes], 1))
  /\ UNCHANGED <<envVars, now, dbVars, remoteVars, statusVars, uploads>>

\* syncService.ts:185-210: a snapshot arrives; up to the first await
Snapshot(c, hasPendingWrites, changes) ==
  /\ th[c].pc = "idle"
  /\ CanCall
  /\ IF hasPendingWrites
     THEN /\ log' = Append(log, Result(c, "live", NoText, "skipped", "own-writes", 0, 0, 0))
          /\ th' = th
     ELSE LiveGoesOn(c, ResumeChanges([Idle EXCEPT !.changes = changes], 1))
  /\ UNCHANGED <<envVars, now, dbVars, remoteVars, statusVars, uploads>>

\* the clock advances
Tick ==
  /\ now < MaxTime
  /\ now' = now + 1
  /\ UNCHANGED <<envVars, dbVars, remoteVars, statusVars, uploads, th, log>>

(***************************************************************************)
(* Initial states and specifications.                                      *)
(***************************************************************************)
\* a record another device of the account wrote, or an earlier session stored
SampleRecord(id, createdAt) ==
  Transaction(id, 10000 * createdAt, <<"U", "b", "e", "r">>, "Travel", createdAt, "GPay", NoText, NoText,
              createdAt)

SampleRecords == {SampleRecord(id, t) : id \in 1..MaxInitId, t \in 1..MaxTime}

\* sets of records of distinct ids
SampleSets ==
  {S \in SUBSET SampleRecords : \A x \in S : \A y \in S : x.id = y.id => x = y}

RECURSIVE InIdOrder(_)
InIdOrder(S) ==
  IF S = {} THEN <<>>
  ELSE LET first == CHOOSE x \in S : \A y \in S : x.id <= y.id
       IN  <<first>> \o InIdOrder(S \ {first})

DocOf(transaction) ==
  [key |-> <<"id", transaction.id>>, data |-> transaction, syncedAt |-> transaction.createdAt]

FreshStatus ==
  [lastSyncTime |-> 0, isSyncing |-> FALSE, pendingUploads |-> 0, error |-> Null]

\* the module state of db.ts and syncService.ts when the app starts, over the
\* local records localSet and the remote documents remoteSet
Started(localSet, remoteSet) ==
  /\ sqliteOk \in BOOLEAN
  /\ asyncOk \in BOOLEAN
  /\ now = 1
  /\ sqlRows = IF sqliteOk THEN InIdOrder(localSet) ELSE <<>>
  /\ sqlSeq \in IF sqliteOk THEN MaxId(InIdOrder(localSet))..MaxInitId ELSE {0}
  /\ stored = IF ~sqliteOk /\ asyncOk /\ localSet # {}
              THEN [present |-> TRUE, items |-> InIdOrder(localSet)]
              ELSE [present |-> FALSE, items |-> <<>>]
  /\ transactionsCache = <<>>
  /\ nextId = 1
  /\ remote = {DocOf(x) : x \in remoteSet}
  /\ autoKeys = 0
  /\ currentStatus = FreshStatus
  /\ lastSyncStored = 0
  /\ uploads = {}
  /\ th = [c \in Callers |-> Idle]
  /\ log = <<>>
  /\ registered = {}
  /\ smsListener = "none"

\* a fresh install, or one that holds a record already; the account is empty
\* or holds one record of another device
Init ==
  \E localSet \in {{}, {SampleRecord(1, 1)}} :
    \E remoteSet \in {{}, {SampleRecord(MaxInitId, 1)}} :
      /\ Started(localSet, remoteSet)
      /\ sqlSeq = IF sqliteOk THEN MaxId(InIdOrder(localSet)) ELSE 0

InsertStep(c) == InsertSql(c) \/ InsertReload(c) \/ InsertFallback(c) \/ InsertSave(c)

UploadStep == \E u \in uploads : UploadSucceeds(u) \/ UploadFails(u)

IngestStep(c) == (\E m \in Texts : Ingest(c, m)) \/ IngestExists(c)

SyncStep(c) ==
  SyncCall(c) \/ SyncLoad(c) \/ SyncDownload(c) \/ SyncUpload(c) \/ SyncRemoteFails(c)
    \/ SyncFinish(c)

Next ==
  \/ \E c \in Ingesters : IngestStep(c)
  \/ \E c \in Syncers : SyncStep(c)
  \/ \E c \in Callers : InsertStep(c)
  \/ UploadStep
  \/ Tick

Spec == Init /\ [][Next]_vars

\* one caller of processSingleSMS, its calls one after the other
NextIngest ==
  \/ IngestStep("sms1")
  \/ InsertStep("sms1")
  \/ UploadStep
  \/ Tick

SpecIngest == Init /\ [][NextIngest]_vars

\* syncWithFirestore alone, from any pair of local and remote record sets
InitSync == \E localSet \in SampleSets : \E remoteSet \in SampleSets : Started(localSet, remoteSet)

NextSync ==
  \/ SyncStep("sync1")
  \/ InsertStep("sync1")
  \/ UploadStep
  \/ Tick

SpecSync == InitSync /\ [][NextSync]_vars

\* edits of the local store beside syncWithFirestore, whose status listener
\* may throw
NextEdit ==
  \/ \E id \in 1..MaxInitId : deleteTransaction(id)
  \/ deleteAllTransactions
  \/ \E id \in 1..MaxInitId :
       \E updates \in {[NoTransaction EXCEPT !.category = "Food"],
                        [NoTransaction EXCEPT !.amount = 500]} :
         updateTransaction(id, updates)
  \/ SyncStep("sync1")
  \/ SyncCallListenerThrows("sync1")
  \/ InsertStep("sync1")
  \/ UploadStep
  \/ Tick

SpecEdit == InitSync /\ [][NextEdit]_vars

\* monitoring switched on and off, and the SMS events of the registered
\* listeners
NextMonitor ==
  \/ \E c \in Ingesters : startSMSMonitoring(c)
  \/ stopSMSMonitoring
  \/ \E c \in registered : \E message \in NativeMessages : onSMSReceived(c, message)
  \/ \E c \in Ingesters : onSMSReceivedExists(c) \/ IngestExists(c) \/ InsertStep(c)
  \/ UploadStep
  \/ Tick

SpecMonitor == Init /\ [][NextMonitor]_vars

\* the native SMS events alone, one after the other
NextNative ==
  \/ \E message \in NativeMessages : onSMSReceived("sms1", message)
  \/ onSMSReceivedExists("sms1")
  \/ IngestExists("sms1")
  \/ InsertStep("sms1")
  \/ UploadStep
  \/ Tick

SpecNative == Init /\ [][NextNative]_vars

\* a record without a category: the row the native receiver wrote (category
\* NULL), or the document another device uploaded from such a row
UnlabelledRecord(id, category) == [SampleRecord(id, 1) EXCEPT !.category = category]

\* the app starts on a table that may hold a row of the native receiver, with
\* an account that may hold an unlabelled document
InitApp ==
  \E localSet \in {{}, {UnlabelledRecord(1, "")}} :
    \E remoteSet \in {{}, {UnlabelledRecord(2, "Uncategorized")}} :
      /\ Started(localSet, remoteSet)
      /\ localSet # {} => sqliteOk

\* startup and the realtime listener
NextApp ==
  \/ initDatabase
  \/ \E hasPendingWrites \in BOOLEAN : \E changes \in Listings :
       Snapshot("live1", hasPendingWrites, changes)
  \/ InsertStep("live1")
  \/ UploadStep
  \/ Tick

SpecApp == InitApp /\ [][NextApp]_vars

\* the realtime listener alone, from any pair of local and remote record sets
NextLive ==
  \/ \E hasPendingWrites \in BOOLEAN : \E changes \in Listings :
       Snapshot("live1", hasPendingWrites, changes)
  \/ InsertStep("live1")
  \/ UploadStep
  \/ Tick

SpecLive == InitSync /\ [][NextLive]_vars

(***************************************************************************)
(* Properties of syncWithFirestore.                                        *)
(***************************************************************************)
\* C1: while one pass of syncWithFirestore is in progress, a further call
\* returns at once (the early return of line 107) without touching the local
\* store, the remote store or the status and without leaving a pending call
\* behind; at most one pass executes at any time.
OnePassAtATime ==
  [][ /\ Cardinality({c \in Syncers : th'[c].pc # "idle"}) <= 1
      /\ \A c \in Syncers : \A d \in Syncers \ {c} :
           th[c].pc # "idle" => th'[d].pc = "idle"
      /\ (Len(log') > Len(log) /\ log'[Len(log')].gate = "in-progress")
           => /\ \E c \in Syncers : th[c].pc # "idle" /\ c # log'[Len(log')].caller
              /\ UNCHANGED <<dbVars, remoteVars, statusVars, uploads, th>>
    ]_vars

\* a call was turned away while the pass of the other caller is still running
SecondCallTurnedAway ==
  \E i \in 1..Len(log) : \E c \in Syncers :
    /\ log[i].op = "sync"
    /\ log[i].result = "skipped"
    /\ c # log[i].caller
    /\ th[c].pc \in {"sync_download", "sync_upload", "insert", "sync_finish"}

\* C2: when a pass completes without error, every id that the local list and
\* the remote list of the pass both held with different createdAt is held by
\* both stores as the record of the larger createdAt, once in the local store.
NewerRecordWinsOnBothSides ==
  [][ \A c \in Syncers :
        (th[c].pc = "sync_finish" /\ Len(log') > Len(log) /\ log'[Len(log')].result = "ok")
        => \A i \in 1..Len(th[c].localTransactions) :
             \A j \in 1..Len(th[c].firestoreTransactions) :
               LET l == th[c].localTransactions[i]
                   f == th[c].firestoreTransactions[j]
               IN  (l.id = f.id /\ l.createdAt # f.createdAt)
                   => /\ Cardinality({k \in 1..Len(loadTransactions') :
                                        loadTransactions'[k].id = l.id}) = 1
                      /\ \A k \in 1..Len(loadTransactions') :
                           loadTransactions'[k].id = l.id
                           => loadTransactions'[k] = (IF Newer(f, l) THEN f ELSE l)
                      /\ \E d \in remote' :
                           d.key = <<"id", l.id>> /\ d.data = (IF Newer(f, l) THEN f ELSE l)
    ]_vars

\* C3: when a pass completes without error, the ids of the local records are
\* the ids of the remote records, and they include every id either side held
\* when the pass read it.
SameIdsOnBothSides ==
  [][ \A c \in Syncers :
        (th[c].pc = "sync_finish" /\ Len(log') > Len(log) /\ log'[Len(log')].result = "ok")
        => /\ {loadTransactions'[k].id : k \in 1..Len(loadTransactions')}
                = {d.data.id : d \in remote'}
           /\ \A i \in 1..Len(th[c].localTransactions) :
                HasId(loadTransactions', th[c].localTransactions[i].id)
           /\ \A j \in 1..Len(th[c].firestoreTransactions) :
                HasId(loadTransactions', th[c].firestoreTransactions[j].id)
    ]_vars

\* C4: a pass that follows a pass completed without error uploads nothing and
\* inserts nothing.
SecondPassDoesNothing ==
  \A i \in 1..(Len(log) - 1) :
    (log[i].op = "sync" /\ log[i].result = "ok" /\ log[i + 1].op = "sync")
    => log[i + 1].uploadCount = 0 /\ log[i + 1].downloadCount = 0

SameTextInsertsOnce ==
  \A i \in 1..Len(log) : \A j \in 1..Len(log) :
    (/\ i < j
     /\ log[i].op = "ingest"
     /\ log[j].op = "ingest"
     /\ log[i].msg = log[j].msg
     /\ ~PreFiltered[log[i].msg]
     /\ Parsed[log[i].msg].ok)
    => /\ log[i].result = "inserted"
       /\ log[j].gate = "duplicate"
       /\ Cardinality({k \in 1..Len(loadTransactions) :
                         loadTransactions[k].rawMessage = log[i].msg}) = 1

\* C6: no two records of the local store carry the same reference.
ReferencesAreUnique ==
  \A i \in 1..Len(loadTransactions) : \A j \in 1..Len(loadTransactions) :
    (i # j /\ loadTransactions[i].upiRef # NoText)
    => loadTransactions[i].upiRef # loadTransactions[j].upiRef

\* the messages with failure vocabulary
FailureTexts == {m \in Texts : isFailedTransaction(m)}

\* C7 as stated: every call with a message of failure vocabulary is skipped
\* at the failure gate of parseSMS.
FailureTextsStopAtTheFailureGate ==
  \A i \in 1..Len(log) :
    (log[i].op = "ingest" /\ log[i].msg \in FailureTexts)
    => log[i].result = "skipped" /\ log[i].gate = "failed-transaction"

\* C7: every call with a message of failure vocabulary is skipped and stores
\* nothing; it is skipped at the first gate in the order of the code that
\* rejects the message: the pre-filter, the duplicate check, the UPI keyword
\* gate, and only then the failure gate.
FailureTextsAreSkipped ==
  [][ /\ \A c \in Ingesters : th'[c].pc = "insert" => th'[c].msg \notin FailureTexts
      /\ \A k \in 1..Len(loadTransactions') :
           loadTransactions'[k].rawMessage \notin FailureTexts
      /\ (Len(log') > Len(log) /\ log'[Len(log')].msg \in FailureTexts)
           => /\ log'[Len(log')].result = "skipped"
              /\ log'[Len(log')].gate =
                   (IF isOTPMessage(log'[Len(log')].msg)
                       \/ isPromotionalMessage(log'[Len(log')].msg) THEN "otp-or-promo"
                    ELSE IF transactionExists(log'[Len(log')].msg) THEN "duplicate"
                    ELSE IF ~isUPITransaction(log'[Len(log')].msg) THEN "not-a-transaction"
                    ELSE "failed-transaction")
              /\ UNCHANGED <<sqlRows, sqlSeq, stored, uploads>>
    ]_vars

\* a failed payment was skipped at the failure gate and another message of
\* failure vocabulary at an earlier gate
FailedPaymentSkipped ==
  /\ \E i \in 1..Len(log) : log[i].msg = SmsFailed /\ log[i].gate = "failed-transaction"
  /\ \E i \in 1..Len(log) :
       log[i].msg \in FailureTexts /\ log[i].gate \in {"otp-or-promo", "not-a-transaction"}

\* C8: once the record of a call is in the local store, the call returns
\* inserted and the record stays, whatever becomes of the upload: the step in
\* which an upload succeeds or fails changes neither the local store nor any
\* call nor any result, and no step removes a record.
UploadNeverReachesTheCaller ==
  [][ /\ (uploads' # uploads /\ uploads' \subseteq uploads) => UNCHANGED <<dbVars, th, log>>
      /\ \A c \in Ingesters :
           (th[c].pc \in {"insert_reload", "insert_save"} /\ th[c].cont = "ingest")
           => \/ th'[c] = th[c]
              \/ /\ th'[c].pc = "idle"
                 /\ Len(log') > Len(log)
                 /\ log'[Len(log')].caller = c
                 /\ log'[Len(log')].result = "inserted"
      /\ \A k \in 1..Len(loadTransactions) :
           \E n \in 1..Len(loadTransactions') : loadTransactions'[n] = loadTransactions[k]
    ]_vars

\* a call returned inserted, its record is stored, and its upload failed:
\* nothing is pending and the remote store does not hold the record
InsertedWithoutUpload ==
  \E i \in 1..Len(log) :
    /\ log[i].result = "inserted"
    /\ \E k \in 1..Len(loadTransactions) : loadTransactions[k].rawMessage = log[i].msg
    /\ uploads = {}
    /\ \A d \in remote : d.data.rawMessage # log[i].msg

\* C9: where SQLite works, the id insertTransaction returns is the id of the
\* stored record: after the return exactly one record has that id, and it is
\* the record of the call.
ReturnedIdIsTheStoredId ==
  [][ (sqliteOk /\ Len(log') > Len(log) /\ log'[Len(log')].result = "inserted")
      => /\ Cardinality({k \in 1..Len(loadTransactions') :
                           loadTransactions'[k].id = log'[Len(log')].id}) = 1
         /\ \A k \in 1..Len(loadTransactions') :
              loadTransactions'[k].id = log'[Len(log')].id
              => loadTransactions'[k].rawMessage = log'[Len(log')].msg
    ]_vars

\* C11: a rejected upload is recorded in the status: after the step in which
\* an upload started by insertTransaction fails (it leaves the pending
\* uploads without a write to the remote store), currentStatus carries an
\* error.
RejectedUploadIsRecorded ==
  [][ (\E u \in uploads : uploads' = uploads \ {u} /\ remote' = remote)
      => currentStatus'.error # Null
    ]_vars


\* C12: a live-update notification that carries the has-pending-local-writes
\* flag changes nothing: no callback is ever at work on a snapshot of pending
\* writes, and the step that answers such a snapshot leaves the local store,
\* the remote store, the pending uploads and the status as they were.
PendingWritesSnapshotChangesNothing ==
  [][ /\ \A c \in Listeners : ~th'[c].pending
      /\ (Len(log') > Len(log) /\ log'[Len(log')].gate = "own-writes")
           => UNCHANGED <<dbVars, remoteVars, uploads, statusVars, th>>
    ]_vars

PendingWritesSnapshotSkipped ==
  /\ \E i \in 1..Len(log) : log[i].gate = "own-writes"
  /\ remote # {}
  /\ loadTransactions = <<>>
  /\ uploads = {}

\* C13: the live-update channel upserts: when the callback inserts a changed
\* remote record whose id already exists in the local store, the step adds no
\* record, and it leaves the local records as they were unless the remote
\* createdAt is larger than the local one.
LiveUpdateIsAnUpsert ==
  [][ \A c \in Listeners :
        ( /\ th[c].pc = "insert"
          /\ th[c].cont = "live"
          /\ th'[c] # th[c]
          /\ HasId(loadTransactions, th[c].tx.id) )
        => /\ Len(loadTransactions') = Len(loadTransactions)
           /\ th[c].tx.createdAt <= MapGet(loadTransactions, th[c].tx.id).createdAt
                => loadTransactions' = loadTransactions
    ]_vars

\* C14: round trip: when a pass of syncWithFirestore ends well on a working
\* SQLite store, every document the pass downloaded that came from a local
\* insert of a parsed message is field-equal (id, amount, merchant, category,
\* date, source, upiRef, rawMessage, createdAt; syncedAt apart) to a record of
\* the local store.
RoundTripKeepsTheFields ==
  [][ \A c \in Syncers :
        ( /\ sqliteOk
          /\ th[c].pc = "sync_finish"
          /\ th'[c].pc = "idle"
          /\ log'[Len(log')].result = "ok" )
        => \A k \in 1..Len(th[c].firestoreTransactions) :
             th[c].firestoreTransactions[k].rawMessage # NoText
               => \E i \in 1..Len(loadTransactions') :
                    loadTransactions'[i] = th[c].firestoreTransactions[k]
    ]_vars

\* C15: every record of the local store has an amount above zero, whichever
\* path created it.
EveryStoredAmountIsPositive ==
  \A i \in 1..Len(loadTransactions) : loadTransactions[i].amount > 0

\* C16: once initDatabase has run its migration pass, every record that
\* loadTransactions returns has one of the nine categories of the categorizer.
LoadedCategoriesAreTheNine ==
  (\E k \in 1..Len(log) : log[k].op = "init")
    => \A i \in 1..Len(loadTransactions) :
         \E j \in 1..Len(categoryKeywords) :
           loadTransactions[i].category = categoryKeywords[j].category

\* C17: a failure of the persistence layer is reported: whenever
\* processSingleSMS has returned true for a text, a record with that text is
\* in the SQLite table or in the AsyncStorage item.
InsertedMeansDurablyStored ==
  \A k \in 1..Len(log) :
    (log[k].op = "ingest" /\ log[k].result = "inserted")
      => \/ \E i \in 1..Len(sqlRows) : sqlRows[i].rawMessage = log[k].msg
         \/ \E i \in 1..Len(stored.items) : stored.items[i].rawMessage = log[k].msg

\* C18: inserts are serialized: when two calls of processSingleSMS have both
\* returned true and a store is available, the store holds a record for each
\* of the two calls, and the two records have distinct ids.
BothInsertsAreKept ==
  LET rows == IF sqliteOk THEN sqlRows ELSE stored.items
  IN  \A j \in 1..Len(log) : \A k \in 1..Len(log) :
        ( /\ j < k
          /\ sqliteOk \/ asyncOk
          /\ log[j].op = "ingest" /\ log[j].result = "inserted"
          /\ log[k].op = "ingest" /\ log[k].result = "inserted" )
        => \E a \in 1..Len(rows) : \E b \in 1..Len(rows) :
             /\ a # b
             /\ rows[a].rawMessage = log[j].msg
             /\ rows[b].rawMessage = log[k].msg
             /\ rows[a].id # rows[b].id

\* C19: the pre-filter of processSingleSMS skips a text exactly when it has
\* OTP vocabulary, or promotional vocabulary without 'debited' or 'paid': a
\* call that is passed on to the duplicate check has a text outside that set,
\* a call turned away at the pre-filter has a text inside it, and that step
\* reads and changes nothing of the store.
PreFilterSkipsOtpAndPurePromotion ==
  [][ \A c \in Ingesters : \A m \in Texts :
        LET lower == toLowerCase(m)
            otp == \E w \in {<<"o", "t", "p">>, <<"o", "n", "e", " ", "t", "i", "m", "e", " ", "p", "a", "s", "s", "w", "o", "r", "d">>, <<"v", "e", "r", "i", "f", "i", "c", "a", "t", "i", "o", "n", " ", "c", "o", "d", "e">>,
                             <<"v", "e", "r", "i", "f", "y">>, <<"d", "o", " ", "n", "o", "t", " ", "s", "h", "a", "r", "e">>} : Includes(lower, w)
            promo == \E w \in {<<"o", "f", "f", "e", "r">>, <<"d", "i", "s", "c", "o", "u", "n", "t">>, <<"c", "a", "s", "h", "b", "a", "c", "k">>, <<"c", "o", "n", "g", "r", "a", "t", "u", "l", "a", "t", "i", "o", "n", "s">>,
                               <<"w", "i", "n", "n", "e", "r">>, <<"c", "l", "a", "i", "m">>, <<"s", "u", "b", "s", "c", "r", "i", "b", "e">>, <<"u", "n", "s", "u", "b", "s", "c", "r", "i", "b", "e">>} :
                       Includes(lower, w)
            paid == Includes(lower, <<"d", "e", "b", "i", "t", "e", "d">>) \/ Includes(lower, <<"p", "a", "i", "d">>)
        IN  /\ (th[c].pc = "idle" /\ th'[c].pc = "exists" /\ th'[c].msg = m)
                 => ~(otp \/ (promo /\ ~paid))
            /\ ( /\ th[c].pc = "idle"
                 /\ Len(log') > Len(log)
                 /\ log'[Len(log')].caller = c
                 /\ log'[Len(log')].msg = m
                 /\ log'[Len(log')].gate = "otp-or-promo" )
                 => /\ otp \/ (promo /\ ~paid)
                    /\ UNCHANGED <<dbVars, remoteVars, uploads>>
            /\ (th[c].pc = "idle" /\ th'[c].pc \notin {"idle", "exists"}) => FALSE
    ]_vars

PromotionWithDebitPassedOn ==
  /\ \E k \in 1..Len(log) : log[k].gate = "otp-or-promo" /\ log[k].msg = SmsPromo
  /\ th["sms1"].pc = "exists"
  /\ th["sms1"].msg = SmsCashback

DeletedRecordComesBack ==
  [][ /\ (Len(log') > Len(log) /\ log'[Len(log')].op = "delete")
           => UNCHANGED <<remoteVars, uploads>>
      /\ \A c \in Syncers :
           ( /\ th[c].pc = "sync_finish"
             /\ th'[c].pc = "idle"
             /\ log'[Len(log')].result = "ok" )
           => \A k \in 1..th[c].started : \A f \in 1..Len(th[c].firestoreTransactions) :
                (log[k].op = "delete" /\ th[c].firestoreTransactions[f].id = log[k].id)
                => \E i \in 1..Len(loadTransactions') :
                     [loadTransactions'[i] EXCEPT !.id = log[k].id]
                       = th[c].firestoreTransactions[f]
    ]_vars

DeletedThenSynced ==
  /\ Len(log) = 2
  /\ log[1].op = "delete"
  /\ log[2].op = "sync" /\ log[2].result = "ok" /\ log[2].downloadCount = 1
  /\ \E d \in remote : d.data.id = log[1].id
  /\ Len(loadTransactions) = 1

\* C22: the frame of syncWithFirestore on the local store: a step of a pass
\* removes no record; a record it leaves changed is replaced by the downloaded
\* version of the same id; and it adds a record only for a downloaded id that
\* no local record holds.
SyncOnlyAddsUnseenIds ==
  [][ \A c \in Syncers :
        (th[c].pc # "idle" /\ th[c].cont \in {"", "sync"} /\ th'[c] # th[c])
        => /\ \A i \in 1..Len(loadTransactions) :
                \E j \in 1..Len(loadTransactions') :
                  \/ loadTransactions'[j] = loadTransactions[i]
                  \/ /\ loadTransactions[i].id = th[c].tx.id
                     /\ loadTransactions'[j] = th[c].tx
           /\ Len(loadTransactions') > Len(loadTransactions)
                => ~HasId(loadTransactions, th[c].tx.id)
    ]_vars

\* C23: an insert that interleaves with a pass of syncWithFirestore is not
\* lost: when a store is available and the only call of processSingleSMS has
\* returned true, the store holds a record with its text, whatever a pass of
\* syncWithFirestore did meanwhile.
InsertBesideSyncIsKept ==
  \A k \in 1..Len(log) :
    ( /\ sqliteOk \/ asyncOk
      /\ log[k].op = "ingest" /\ log[k].result = "inserted"
      /\ \A j \in 1..Len(log) : j # k => log[j].op # "ingest"
      /\ \A c \in Ingesters : th[c].pc = "idle" )
    => LET rows == IF sqliteOk THEN sqlRows ELSE stored.items
       IN  \E i \in 1..Len(rows) : rows[i].rawMessage = log[k].msg

\* C24: an amount written with thousands separators is extracted whole: the
\* record of the text 'INR 12,345.50 debited to Ola via UPI' has the amount
\* 12345.50, not a prefix of it.
GroupedAmountIsExtractedWhole ==
  \A i \in 1..Len(loadTransactions) :
    loadTransactions[i].rawMessage = SmsGrouped => loadTransactions[i].amount = 1234550

\* C25: concurrent calls of processSingleSMS with the same text insert at most
\* one record of it: as long as no pass of syncWithFirestore has run, the
\* local store never holds two records with the same rawMessage.
SameTextConcurrentlyInsertsOnce ==
  ( /\ \A k \in 1..Len(log) : log[k].op = "ingest"
    /\ \A c \in Syncers : th[c].pc = "idle" )
  => \A i \in 1..Len(loadTransactions) : \A j \in 1..Len(loadTransactions) :
       ( /\ loadTransactions[i].rawMessage # NoText
         /\ loadTransactions[i].rawMessage = loadTransactions[j].rawMessage )
       => i = j

\* C26: after the bulk reset the local store is empty: in the state that
\* deleteAllTransactions leaves, loadTransactions returns no record.
ResetEmptiesTheStore ==
  [][ (Len(log') > Len(log) /\ log'[Len(log')].op = "reset")
      => loadTransactions' = <<>>
    ]_vars

\* C27: handling a live-update notification writes nothing to the remote
\* store: no step of the onSnapshot callback starts an upload or changes a
\* remote document.
LiveUpdateStartsNoUpload ==
  [][ \A c \in Listeners :
        th'[c] # th[c] => (uploads' \subseteq uploads /\ remote' = remote)
    ]_vars

\* C28: the in-progress flag is cleared when a pass ends: whenever no call of
\* syncWithFirestore is executing, currentStatus.isSyncing is false.
FlagIsClearWhenNoPassRuns ==
  (\A c \in Syncers : th[c].pc = "idle") => ~currentStatus.isSyncing

\* C29: a local edit reaches the remote store: when a pass of
\* syncWithFirestore that began after updateTransaction(id, ...) had returned
\* ends well with no upload pending, and the document of the id it downloaded
\* was not newer than the local record, the remote document of the id equals
\* the local record of the id.
EditReachesTheRemoteStore ==
  [][ \A c \in Syncers :
        ( /\ th[c].pc = "sync_finish"
          /\ th'[c].pc = "idle"
          /\ log'[Len(log')].result = "ok"
          /\ uploads = {} )
        => \A k \in 1..th[c].started : \A f \in 1..Len(th[c].firestoreTransactions) :
             ( /\ log[k].op = "update"
               /\ th[c].firestoreTransactions[f].id = log[k].id
               /\ HasId(th[c].localTransactions, log[k].id)
               /\ th[c].firestoreTransactions[f].createdAt
                    <= MapGet(th[c].localTransactions, log[k].id).createdAt )
             => \E d \in remote' :
                  /\ d.data.id = log[k].id
                  /\ d.data = MapGet(loadTransactions', log[k].id)
    ]_vars

\* C30: at most one incoming-SMS listener is registered at any time, and when
\* stopSMSMonitoring has left no kept subscription, no listener is registered.
AtMostOneSmsListener ==
  /\ Cardinality(registered) <= 1
  /\ smsListener = "none" => registered = {}
====
